---- MODULE Spec2Model ----
(***************************************************************************)
(* Model of tusk's OAuth authorization-code flow: the `auth` command       *)
(* (package cmd, runAuth) and the local callback listener of package oauth *)
(* (CallbackServer: handleCallback, Start, WaitForCode, shutdown).         *)
(*                                                                         *)
(* Goroutines are modelled as interleaved processes:                       *)
(*   - the main goroutine running runAuth, which becomes the waiter inside *)
(*     WaitForCode;                                                        *)
(*   - the goroutine spawned by Start, which runs http.Server.Serve;       *)
(*   - one handler goroutine per accepted /callback request;               *)
(*   - the runtime timer behind time.After;                                *)
(*   - a package-internal caller of shutdown (as the package's tests do).  *)
(* Channel sends and receives block exactly as Go's buffered channels do:  *)
(* an action whose send finds the buffer full is not enabled.  Time is not *)
(* measured: an armed timer may fire at any moment, and nothing bounds how *)
(* long a runnable goroutine waits for the scheduler.                      *)
(***************************************************************************)
EXTENDS Naturals, Sequences, FiniteSets

(***************************************************************************)
(* Bounds of the model.                                                    *)
(***************************************************************************)
\* number of callback requests the environment may issue in one session
MaxRequests == 2
\* number of store operations that take effect in a run of the store commands
MaxOps == 3
\* number of statuses the server returns to one sync
MaxFetched == 2

(***************************************************************************)
(* Values.                                                                 *)
(***************************************************************************)
Nil == "nil"
Codes == {"a", "b"}
\* value of r.URL.Query().Get("code"): "" when the parameter is absent or empty
CodeParams == {""} \cup Codes
ErrMissingCode == "no authorization code received"
ErrTimeout == "timeout waiting for authorization"
\* a non-ErrServerClosed error returned by http.Server.Serve
ErrServe == "accept failed"
\* an error of the database behind the store
ErrDB == "database error"
StatusOK == "200"
StatusBadRequest == "400"

\* the errors runAuth returns, by the step that failed
ErrReadDomain == "failed to read domain"
ErrEmptyDomain == "domain cannot be empty"
ErrCreateServer == "failed to create callback server"
ErrRegisterApp == "failed to register app"
ErrSaveDomain == "failed to save domain"
ErrSaveClientID == "failed to save client_id"
ErrSaveClientSecret == "failed to save client_secret"
ErrStartServer == "failed to start callback server"
ErrGetCode == "failed to get authorization code"
ErrGetToken == "failed to get access token"
ErrSaveToken == "failed to save access token"

(***************************************************************************)
(* Ports and addresses.  A string is a sequence of pieces: decimal digits  *)
(* one by one, the fixed parts of a format in one piece each.              *)
(***************************************************************************)
MinPort == 49152
MaxPort == 65535
\* portRange of getRandomPort: rand.Int draws from [0, portRange)
PortRange == MaxPort - MinPort + 1
\* the draw of rand.Int the runs of the whole flow are explored with; PortSpec
\* below explores every draw
RandSamples == {PortRange - 1}
\* variant: the draw is taken from [1, portRange]
getRandomPort_OffByOne(n) == MinPort + n + 1

\* getRandomPort, given the number n that rand.Int drew
getRandomPort(n) == MinPort + n

Digit == <<"0", "1", "2", "3", "4", "5", "6", "7", "8", "9">>
\* fmt's %d of a non-negative int
RECURSIVE Itoa(_)
Itoa(n) == IF n < 10 THEN <<Digit[n + 1]>>
           ELSE Append(Itoa(n \div 10), Digit[(n % 10) + 1])
\* the number a string of decimal digits denotes
DigitValue(c) == CHOOSE d \in 0..9 : Digit[d + 1] = c
RECURSIVE Atoi(_)
Atoi(str) == IF str = <<>> THEN 0
             ELSE 10 * Atoi(SubSeq(str, 1, Len(str) - 1)) + DigitValue(str[Len(str)])
\* variant: the server's address is formed from the first port of the range
\* rather than from the port of the server
ServerAddr_FirstPort(p) == <<":">> \o Itoa(MinPort)

\* fmt.Sprintf(":%d", port), the Addr NewCallbackServer gives the http.Server
ServerAddr(p) == <<":">> \o Itoa(p)
\* fmt.Sprintf("http://localhost:%d/callback", port)
RedirectURIOf(p) == <<"http://localhost:">> \o Itoa(p) \o <<"/callback">>
\* the host net.Listen binds when the address names none: every interface
AllInterfaces == "*"
\* net.Listen("tcp", addr): the address is split at its last colon; an empty
\* host binds every interface of the machine
ListenAddress(addr) ==
    LET i == CHOOSE k \in 1..Len(addr) :
                 addr[k] = ":" /\ \A j \in (k + 1)..Len(addr) : addr[j] # ":"
    IN  [host |-> IF i = 1 THEN AllInterfaces ELSE addr[i - 1],
         port |-> Atoi(SubSeq(addr, i + 1, Len(addr)))]
NotBound == [host |-> "", port |-> 0]

Requests == 1..MaxRequests
Keys == {"domain", "client_id", "client_secret", "access_token"}
EmptyStore == [k \in Keys |-> ""]
\* what an earlier, complete run of the command left behind
OldStore == [k \in Keys |-> "old"]
\* what an earlier run that failed after registration left behind
PartialStore == [OldStore EXCEPT !["access_token"] = ""]
\* the line read from stdin for the domain, after strings.TrimSpace
DomainInputs == {[scheme |-> "", host |-> ""],
                 [scheme |-> "", host |-> "mastodon.social"],
                 [scheme |-> "https://", host |-> "mastodon.social"]}
\* the answer to the re-authentication prompt, trimmed and lower-cased
Responses == {"y", "yes", "n", ""}
\* values written to the config table by the store's callers
Values == {"", "v1", "v2"}
\* status IDs handed out by the server
StatusIDs == {"s1", "s2", "s3"}
\* the values of --visibility
Visibilities == {"public", "unlisted", "private", "direct"}
\* how runPost is told what to reply to: --reply-tui with the post selected
\* in the TUI ("" when the TUI is quit), -R, -r with an ID, or no reply
ReplyModes ==
    [kind : {"tui"}, id : {"", "s1"}]
        \cup [kind : {"last", "none"}, id : {""}]
        \cup [kind : {"to"}, id : {"s1"}]
\* the calls of runPost that can return an error
PostSteps == {"Get", "runReplyTUI", "GetLastPostID", "getStatusText", "GetStatus",
              "ProcessImage", "UploadMedia", "PostStatus", "AddPostToHistory"}

\* the operations of a run that reach beyond the process
Operations == {"RegisterApp", "Start", "WaitForCode", "GetAccessToken"}

VARIABLES
    store,       \* the config store: key -> value ("" = absent)
    authPc,      \* position of runAuth
    domain,      \* runAuth's local `domain`
    port,        \* cs.port of the CallbackServer runAuth created, 0 before that
    bound,       \* the address the socket of net.Listen is bound to
    urlShown,    \* output.URL(authURL) has printed the authorization URL
    browser,     \* oauth.OpenBrowser: "none" (not called) or "called"
    authErr,     \* the error runAuth returned, Nil if none
    store0,      \* history: the store as runAuth found it
    registered,  \* history: client.RegisterApp has returned an application
    exchanged,   \* history: the code client.GetAccessToken returned a token for
    calls,       \* history: how often the run invoked each of Operations
    prompt,      \* history: the re-authentication prompt: "none" (not shown),
                 \* "confirmed" (answered y or yes) or "declined"
    passed,      \* history: the redirect URI the run passed to each of
                 \* RedirectTakers, <<>> where it has not called it yet
    history,     \* the post_history table: its status IDs in the order of their
                 \* row ids (AUTOINCREMENT: the order of insertion)
    log,         \* history: the operations of the store that took effect, in order
    last,        \* history: the last command run on the store and how it ended
    server,      \* the account on the server: the IDs of the statuses posted
                 \* to it and the number of media files uploaded to it
    tui,         \* the model of the selection TUI that is running (bubbletea
                 \* hands every message to its Update), NoTUI when none is
    listener,    \* the TCP listener of net.Listen: "none", "bound", "closed"
    servePc,     \* the goroutine of Start: "none", "spawned", "accepting", "sendErr", "done"
    inShutdown,  \* http.Server's inShutdown flag
    onceState,   \* cs.once: "fresh", "running" (body executing), "done"
    stops,       \* how many times the body of cs.once.Do ran (server.Shutdown calls)
    codeChan,    \* cs.codeChan, buffered, capacity 1
    errChan,     \* cs.errChan, buffered, capacity 1
    reqPc,       \* per request: "new", "handling", "done"
    reqCode,     \* per request: its code query parameter
    reqStatus,   \* per request: HTTP status written by the handler, "" if none yet
    delivered,   \* history: senders in order of their channel sends (request id, 0 = Serve goroutine)
    timer,       \* the timer of time.After: "off", "armed", "fired"
    waitPc,      \* WaitForCode: "idle", "select", "shutdown", "returned"
    outcome,     \* the (code, err) pair WaitForCode's select chose
    resolved,    \* history: what had been delivered and the timer, when the select resolved
    outcomes,    \* history: the (code, err) pairs handed back to WaitForCode's caller
    extraPc      \* a direct caller of shutdown: "idle", "calling"

\* CallbackServer.Port and CallbackServer.RedirectURI of the server of the run
Port == port
RedirectURI == RedirectURIOf(port)

\* variant: the URI handed on is that of another server, on the first port
redirectURI_OtherServer == RedirectURIOf(MinPort)

\* runAuth's local redirectURI := callbackServer.RedirectURI(), read once
\* after the server is created
redirectURI == RedirectURI

\* the history of the redirect URIs after op was called with redirectURI
Passed(op) == [passed EXCEPT ![op] = redirectURI]

\* the history of calls after one more call of op
Called(op) == [calls EXCEPT ![op] = @ + 1]

\* the post history and what the other commands of the program act on
cmdVars == <<history, log, last, server, tui>>
\* runAuth's variables apart from the store
runVars == <<authPc, domain, port, bound, urlShown, browser, authErr, store0,
             registered, exchanged, calls, prompt, passed>>
authVars == <<store, authPc, domain, port, bound, urlShown, browser, authErr, store0,
              registered, exchanged, calls, prompt, passed, cmdVars>>
serverVars == <<listener, servePc, inShutdown>>
onceVars == <<onceState, stops>>
chanVars == <<codeChan, errChan, delivered>>
reqVars == <<reqPc, reqCode, reqStatus>>
waitVars == <<timer, waitPc, outcome, resolved, outcomes>>
extraVars == <<extraPc>>
vars == <<authVars, serverVars, onceVars, chanVars, reqVars, waitVars, extraVars>>

NoOutcome == [code |-> "", err |-> Nil]
NoResolve == [delivered |-> <<>>, timer |-> "off"]
NoCommand == [cmd |-> "none"]
NoTUI == [kind |-> "none"]
\* the calls of runAuth that take the redirect URI
RedirectTakers == {"RegisterApp", "GetAuthorizationURL", "GetAccessToken"}

Init ==
    /\ store \in {EmptyStore, OldStore, PartialStore}
    /\ authPc = "checkToken"
    /\ domain = ""
    /\ port = 0
    /\ bound = NotBound
    /\ urlShown = FALSE
    /\ browser = "none"
    /\ authErr = Nil
    /\ store0 = store
    /\ registered = FALSE
    /\ exchanged = ""
    /\ prompt = "none"
    /\ passed = [op \in RedirectTakers |-> <<>>]
    /\ tui = NoTUI
    /\ history = <<>>
    /\ log = <<>>
    /\ last = NoCommand
    /\ server = [statuses |-> {}, media |-> 0]
    /\ calls = [op \in Operations |-> 0]
    /\ listener = "none"
    /\ servePc = "none"
    /\ inShutdown = FALSE
    /\ onceState = "fresh"
    /\ stops = 0
    /\ codeChan = <<>>
    /\ errChan = <<>>
    /\ reqPc = [r \in Requests |-> "new"]
    /\ reqCode = [r \in Requests |-> ""]
    /\ reqStatus = [r \in Requests |-> ""]
    /\ delivered = <<>>
    /\ timer = "off"
    /\ waitPc = "idle"
    /\ outcome = NoOutcome
    /\ resolved = NoResolve
    /\ outcomes = <<>>
    /\ extraPc = "idle"

sessionVars == <<serverVars, onceVars, chanVars, reqVars, waitVars, extraVars>>

(***************************************************************************)
(* runAuth, before the listener is started.                                *)
(***************************************************************************)
\* store.Get("access_token"), whose error is dropped (the token then reads
\* as ""), and the re-authentication prompt
AuthCheckToken ==
    /\ authPc = "checkToken"
    /\ \E getOk \in BOOLEAN :
        LET existingToken == IF getOk THEN store["access_token"] ELSE "" IN
        IF existingToken # ""
        THEN \E response \in Responses :
                 /\ authPc' = IF response # "y" /\ response # "yes"
                               THEN "cancelled" ELSE "readDomain"
                 /\ prompt' = IF response \in {"y", "yes"}
                               THEN "confirmed" ELSE "declined"
        ELSE authPc' = "readDomain" /\ UNCHANGED prompt
    /\ UNCHANGED <<store, domain, port, bound, urlShown, browser, authErr, store0, passed, cmdVars,
                   calls, exchanged, registered, sessionVars>>

\* variant: the empty domain is reported and the run goes on
AuthReadDomain_EmptyGoesOn ==
    /\ authPc = "readDomain"
    /\ \/ /\ authPc' = "failed"
          /\ authErr' = ErrReadDomain
          /\ UNCHANGED domain
       \/ \E in \in DomainInputs :
            IF in.host = ""
            THEN authPc' = "newServer" /\ authErr' = ErrEmptyDomain /\ UNCHANGED domain
            ELSE /\ domain' = (IF in.scheme = "" THEN "https://" ELSE in.scheme) \o in.host
                 /\ authPc' = "newServer"
                 /\ UNCHANGED authErr
    /\ UNCHANGED <<store, port, bound, urlShown, browser, store0, passed, cmdVars, prompt, calls, exchanged, registered, sessionVars>>

\* read the domain, reject the empty one, default the scheme to https://
AuthReadDomain ==
    /\ authPc = "readDomain"
    /\ \/ /\ authPc' = "failed"          \* reader.ReadString failed
          /\ authErr' = ErrReadDomain
          /\ UNCHANGED domain
       \/ \E in \in DomainInputs :
            IF in.host = ""
            THEN authPc' = "failed" /\ authErr' = ErrEmptyDomain /\ UNCHANGED domain
            ELSE /\ domain' = (IF in.scheme = "" THEN "https://" ELSE in.scheme) \o in.host
                 /\ authPc' = "newServer"
                 /\ UNCHANGED authErr
    /\ UNCHANGED <<store, port, bound, urlShown, browser, store0, passed, cmdVars, prompt, calls, exchanged, registered, sessionVars>>

\* oauth.NewCallbackServer, with rand.Int drawing from R: the server gets
\* the port of getRandomPort; it fails only when the random source fails
NewCallbackServerWith(R) ==
    /\ authPc = "newServer"
    /\ \/ \E n \in R :
            /\ port' = getRandomPort(n)
            /\ authPc' = "register"
            /\ UNCHANGED authErr
       \/ /\ authPc' = "failed"
          /\ authErr' = ErrCreateServer
          /\ UNCHANGED port
    /\ UNCHANGED <<store, domain, bound, urlShown, browser, store0, passed, cmdVars, prompt, calls, exchanged, registered, sessionVars>>

NewCallbackServer == NewCallbackServerWith(RandSamples)

\* variant: a failed registration is tried once more
AuthRegisterApp_Retry ==
    /\ authPc = "register"
    /\ \E ok \in BOOLEAN :
        /\ authPc' = IF ok THEN "saveDomain"
                     ELSE IF calls["RegisterApp"] = 0 THEN "register" ELSE "failed"
        /\ authErr' = IF ok \/ calls["RegisterApp"] = 0 THEN authErr ELSE ErrRegisterApp
        /\ registered' = ok
    /\ calls' = Called("RegisterApp")
    /\ passed' = Passed("RegisterApp")
    /\ UNCHANGED <<store, domain, port, bound, urlShown, browser, store0, cmdVars, prompt, exchanged,
                   sessionVars>>

\* client.RegisterApp
AuthRegisterApp ==
    /\ authPc = "register"
    /\ \E ok \in BOOLEAN :
        /\ authPc' = IF ok THEN "saveDomain" ELSE "failed"
        /\ authErr' = IF ok THEN authErr ELSE ErrRegisterApp
        /\ registered' = ok
    /\ calls' = Called("RegisterApp")
    /\ passed' = Passed("RegisterApp")
    /\ UNCHANGED <<store, domain, port, bound, urlShown, browser, store0, cmdVars, prompt, exchanged,
                   sessionVars>>

\* one store.Set(key, value) of runAuth: on failure the run aborts
AuthSet(at, key, value, next, err) ==
    /\ authPc = at
    /\ \/ /\ store' = [store EXCEPT ![key] = value]
          /\ authPc' = next
          /\ UNCHANGED authErr
       \/ /\ authPc' = "failed"
          /\ authErr' = err
          /\ UNCHANGED store
    /\ UNCHANGED <<domain, port, bound, urlShown, browser, store0, passed, cmdVars, prompt, calls, exchanged, registered, sessionVars>>

AuthSaveDomain ==
    AuthSet("saveDomain", "domain", domain, "saveClientID", ErrSaveDomain)
AuthSaveClientID ==
    AuthSet("saveClientID", "client_id", "id", "saveClientSecret", ErrSaveClientID)
\* variant: the URL is displayed without the listener having been started
AuthSaveClientSecret_NoStart ==
    AuthSet("saveClientSecret", "client_secret", "secret", "display",
            ErrSaveClientSecret)

AuthSaveClientSecret ==
    AuthSet("saveClientSecret", "client_secret", "secret", "start",
            ErrSaveClientSecret)

(***************************************************************************)
(* CallbackServer.Start and the goroutine it spawns.                       *)
(***************************************************************************)
\* variant: runAuth notes the error of Start and goes on
Start_ErrorIgnored ==
    /\ authPc = "start"
    /\ \/ /\ listener' = "bound"
          /\ bound' = ListenAddress(ServerAddr(port))
          /\ servePc' = "spawned"
          /\ authPc' = "display"
          /\ UNCHANGED authErr
       \/ /\ authPc' = "display"
          /\ authErr' = ErrStartServer
          /\ UNCHANGED <<listener, bound, servePc>>
    /\ calls' = Called("Start")
    /\ passed' = Passed("GetAuthorizationURL")
    /\ UNCHANGED <<store, domain, port, urlShown, browser, store0, cmdVars, prompt, exchanged, registered, inShutdown,
                   onceVars, chanVars, reqVars, waitVars, extraVars>>

\* client.GetAuthorizationURL builds the URL; then CallbackServer.Start:
\* net.Listen binds the socket or fails; on success Serve is started in a
\* new goroutine and Start returns without waiting for it
Start ==
    /\ authPc = "start"
    /\ \/ /\ listener' = "bound"
          /\ bound' = ListenAddress(ServerAddr(port))
          /\ servePc' = "spawned"
          /\ authPc' = "display"
          /\ UNCHANGED authErr
       \/ /\ authPc' = "failed"
          /\ authErr' = ErrStartServer
          /\ UNCHANGED <<listener, bound, servePc>>
    /\ calls' = Called("Start")
    /\ passed' = Passed("GetAuthorizationURL")
    /\ UNCHANGED <<store, domain, port, urlShown, browser, store0, cmdVars, prompt, exchanged, registered, inShutdown,
                   onceVars, chanVars, reqVars, waitVars, extraVars>>

\* the goroutine enters http.Server.Serve: a server already shut down makes
\* Serve close the listener and return ErrServerClosed at once
ServeEnter ==
    /\ servePc = "spawned"
    /\ IF inShutdown
       THEN listener' = "closed" /\ servePc' = "done"
       ELSE servePc' = "accepting" /\ UNCHANGED listener
    /\ UNCHANGED <<authVars, inShutdown, onceVars, chanVars, reqVars, waitVars,
                   extraVars>>

\* Serve accepts the connection of the next request to /callback and starts
\* its handler goroutine
ServeAccept(r, code) ==
    /\ servePc = "accepting"
    /\ listener = "bound"
    /\ reqPc[r] = "new"
    /\ \A q \in Requests : q < r => reqPc[q] # "new"
    /\ reqPc' = [reqPc EXCEPT ![r] = "handling"]
    /\ reqCode' = [reqCode EXCEPT ![r] = code]
    /\ UNCHANGED <<authVars, serverVars, onceVars, chanVars, reqStatus, waitVars,
                   extraVars>>

\* Accept fails for good: Serve closes the listener and returns the error
ServeAcceptError ==
    /\ servePc = "accepting"
    /\ listener = "bound"
    /\ listener' = "closed"
    /\ servePc' = "sendErr"
    /\ UNCHANGED <<authVars, inShutdown, onceVars, chanVars, reqVars, waitVars,
                   extraVars>>

\* cs.errChan <- err, for an error other than ErrServerClosed
ServeSendErr ==
    /\ servePc = "sendErr"
    /\ Len(errChan) < 1
    /\ errChan' = Append(errChan, ErrServe)
    /\ delivered' = Append(delivered, 0)
    /\ servePc' = "done"
    /\ UNCHANGED <<authVars, listener, inShutdown, onceVars, codeChan, reqVars,
                   waitVars, extraVars>>

\* Shutdown closed the listener under Serve: it returns ErrServerClosed
ServeClosed ==
    /\ servePc = "accepting"
    /\ listener = "closed"
    /\ servePc' = "done"
    /\ UNCHANGED <<authVars, listener, inShutdown, onceVars, chanVars, reqVars,
                   waitVars, extraVars>>

(***************************************************************************)
(* CallbackServer.handleCallback: one invocation, for request r.           *)
(***************************************************************************)
\* variant: the check for an empty code is missing, whatever came is sent as
\* the code
handleCallback_NoCheck(r) ==
    /\ reqPc[r] = "handling"
    /\ Len(codeChan) < 1
    /\ codeChan' = Append(codeChan, reqCode[r])
    /\ reqStatus' = [reqStatus EXCEPT ![r] = StatusOK]
    /\ delivered' = Append(delivered, r)
    /\ reqPc' = [reqPc EXCEPT ![r] = "done"]
    /\ UNCHANGED <<authVars, serverVars, onceVars, errChan, reqCode, waitVars,
                   extraVars>>

handleCallback(r) ==
    /\ reqPc[r] = "handling"
    /\ IF reqCode[r] = ""
       THEN /\ Len(errChan) < 1
            /\ errChan' = Append(errChan, ErrMissingCode)
            /\ reqStatus' = [reqStatus EXCEPT ![r] = StatusBadRequest]
            /\ UNCHANGED codeChan
       ELSE /\ Len(codeChan) < 1
            /\ codeChan' = Append(codeChan, reqCode[r])
            /\ reqStatus' = [reqStatus EXCEPT ![r] = StatusOK]
            /\ UNCHANGED errChan
    /\ delivered' = Append(delivered, r)
    /\ reqPc' = [reqPc EXCEPT ![r] = "done"]
    /\ UNCHANGED <<authVars, serverVars, onceVars, reqCode, waitVars, extraVars>>

(***************************************************************************)
(* runAuth between Start and WaitForCode.                                  *)
(***************************************************************************)
\* output.Info, output.Plain, output.URL(authURL)
AuthDisplayURL ==
    /\ authPc = "display"
    /\ authPc' = "openBrowser"
    /\ urlShown' = TRUE
    /\ UNCHANGED <<store, domain, port, bound, browser, authErr, store0, passed, cmdVars, prompt, calls, exchanged, registered,
                   sessionVars>>

\* oauth.OpenBrowser: its error is printed and otherwise ignored
OpenBrowser ==
    /\ authPc = "openBrowser"
    /\ \E ok \in BOOLEAN : browser' = "called"
    /\ authPc' = "wait"
    /\ UNCHANGED <<store, domain, port, bound, urlShown, authErr, store0, passed, cmdVars, prompt, calls, exchanged, registered,
                   sessionVars>>

\* variant: runAuth returns the error of OpenBrowser
OpenBrowserObserved_Fatal ==
    /\ authPc = "openBrowser"
    /\ \E ok \in BOOLEAN :
        /\ browser' = IF ok THEN "opened" ELSE "failed"
        /\ authPc' = IF ok THEN "wait" ELSE "failed"
        /\ authErr' = IF ok THEN authErr ELSE "failed to open browser"
    /\ UNCHANGED <<store, domain, port, bound, urlShown, store0, passed, cmdVars, prompt, calls, exchanged, registered,
                   sessionVars>>

\* the same call with its result kept in the history: "opened" when the
\* command was started, "failed" when OpenBrowser returned an error
OpenBrowserObserved ==
    /\ authPc = "openBrowser"
    /\ \E ok \in BOOLEAN : browser' = IF ok THEN "opened" ELSE "failed"
    /\ authPc' = "wait"
    /\ UNCHANGED <<store, domain, port, bound, urlShown, authErr, store0, passed, cmdVars, prompt, calls, exchanged, registered,
                   sessionVars>>

(***************************************************************************)
(* CallbackServer.WaitForCode.                                             *)
(***************************************************************************)
\* runAuth calls WaitForCode: the select evaluates time.After(timeout)
WaitForCode ==
    /\ authPc = "wait"
    /\ waitPc = "idle"
    /\ waitPc' = "select"
    /\ timer' = "armed"
    /\ calls' = Called("WaitForCode")
    /\ UNCHANGED <<store, authPc, domain, port, bound, urlShown, browser, authErr,
                   store0, passed, cmdVars, prompt, registered, exchanged, serverVars, onceVars, chanVars, reqVars, outcome,
                   resolved, outcomes, extraVars>>

\* the timeout elapses
TimerFire ==
    /\ timer = "armed"
    /\ timer' = "fired"
    /\ UNCHANGED <<authVars, serverVars, onceVars, chanVars, reqVars, waitPc,
                   outcome, resolved, outcomes, extraVars>>

\* variant: the code case returns the zero value instead of the received code
WaitSelect_DropCode ==
    /\ waitPc = "select"
    /\ \/ /\ codeChan # <<>>
          /\ outcome' = [code |-> "", err |-> Nil]
          /\ codeChan' = Tail(codeChan)
          /\ UNCHANGED errChan
       \/ /\ errChan # <<>>
          /\ outcome' = [code |-> "", err |-> Head(errChan)]
          /\ errChan' = Tail(errChan)
          /\ UNCHANGED codeChan
       \/ /\ timer = "fired"
          /\ outcome' = [code |-> "", err |-> ErrTimeout]
          /\ UNCHANGED <<codeChan, errChan>>
    /\ resolved' = [delivered |-> delivered, timer |-> timer]
    /\ waitPc' = "shutdown"
    /\ UNCHANGED <<authVars, serverVars, onceVars, delivered, reqVars, timer,
                   outcomes, extraVars>>

\* variant: the timeout case reports another error
WaitSelect_OtherTimeoutError ==
    /\ waitPc = "select"
    /\ \/ /\ codeChan # <<>>
          /\ outcome' = [code |-> Head(codeChan), err |-> Nil]
          /\ codeChan' = Tail(codeChan)
          /\ UNCHANGED errChan
       \/ /\ errChan # <<>>
          /\ outcome' = [code |-> "", err |-> Head(errChan)]
          /\ errChan' = Tail(errChan)
          /\ UNCHANGED codeChan
       \/ /\ timer = "fired"
          /\ outcome' = [code |-> "", err |-> ErrMissingCode]
          /\ UNCHANGED <<codeChan, errChan>>
    /\ resolved' = [delivered |-> delivered, timer |-> timer]
    /\ waitPc' = "shutdown"
    /\ UNCHANGED <<authVars, serverVars, onceVars, delivered, reqVars, timer,
                   outcomes, extraVars>>

\* the select statement: one of the cases that can proceed is chosen
WaitSelect ==
    /\ waitPc = "select"
    /\ \/ /\ codeChan # <<>>
          /\ outcome' = [code |-> Head(codeChan), err |-> Nil]
          /\ codeChan' = Tail(codeChan)
          /\ UNCHANGED errChan
       \/ /\ errChan # <<>>
          /\ outcome' = [code |-> "", err |-> Head(errChan)]
          /\ errChan' = Tail(errChan)
          /\ UNCHANGED codeChan
       \/ /\ timer = "fired"
          /\ outcome' = [code |-> "", err |-> ErrTimeout]
          /\ UNCHANGED <<codeChan, errChan>>
    /\ resolved' = [delivered |-> delivered, timer |-> timer]
    /\ waitPc' = "shutdown"
    /\ UNCHANGED <<authVars, serverVars, onceVars, delivered, reqVars, timer,
                   outcomes, extraVars>>

\* variant: the select sits in a loop, so after handing back an outcome the
\* waiter selects again
WaitReturn_Loop ==
    /\ waitPc = "shutdown"
    /\ onceState = "done"
    /\ waitPc' = "select"
    /\ outcomes' = Append(outcomes, outcome)
    /\ UNCHANGED <<authVars, serverVars, onceVars, chanVars, reqVars, timer,
                   outcome, resolved, extraVars>>

\* cs.shutdown() has returned: WaitForCode returns the chosen outcome
WaitReturn ==
    /\ waitPc = "shutdown"
    /\ onceState = "done"
    /\ waitPc' = "returned"
    /\ outcomes' = Append(outcomes, outcome)
    /\ UNCHANGED <<authVars, serverVars, onceVars, chanVars, reqVars, timer,
                   outcome, resolved, extraVars>>

(***************************************************************************)
(* CallbackServer.shutdown: cs.once.Do around http.Server.Shutdown with a  *)
(* context of 5 seconds.                                                   *)
(***************************************************************************)
\* a goroutine is inside a call of cs.shutdown()
InShutdownCall == waitPc = "shutdown" \/ extraPc = "calling"

\* a connection whose handler has not finished
ActiveConn == \E r \in Requests : reqPc[r] = "handling"

\* variant: no once guard, every call that finds no stop in progress stops
\* the server again
shutdown_NoOnce ==
    /\ InShutdownCall
    /\ onceState # "running"
    /\ onceState' = "running"
    /\ stops' = stops + 1
    /\ inShutdown' = TRUE
    /\ listener' = IF servePc = "accepting" THEN "closed" ELSE listener
    /\ UNCHANGED <<authVars, servePc, chanVars, reqVars, waitVars, extraVars>>

\* the first caller enters the body of once.Do; server.Shutdown marks the
\* server as shutting down and closes the listeners Serve has registered
shutdown ==
    /\ InShutdownCall
    /\ onceState = "fresh"
    /\ onceState' = "running"
    /\ stops' = stops + 1
    /\ inShutdown' = TRUE
    /\ listener' = IF servePc = "accepting" THEN "closed" ELSE listener
    /\ UNCHANGED <<authVars, servePc, chanVars, reqVars, waitVars, extraVars>>

\* variant: Shutdown is given a context without deadline
ShutdownReturn_NoDeadline ==
    /\ onceState = "running"
    /\ ~ActiveConn
    /\ onceState' = "done"
    /\ UNCHANGED <<authVars, serverVars, stops, chanVars, reqVars, waitVars,
                   extraVars>>

\* server.Shutdown returns: every connection is idle, or the context expired
ShutdownReturn ==
    /\ onceState = "running"
    /\ \/ ~ActiveConn
       \/ ActiveConn          \* ctx.Done(): the 5 seconds are over
    /\ onceState' = "done"
    /\ UNCHANGED <<authVars, serverVars, stops, chanVars, reqVars, waitVars,
                   extraVars>>

\* a direct call of cs.shutdown() by code of the package, any number of
\* times, one after the other
ExtraShutdown ==
    /\ extraPc = "idle"
    /\ servePc # "none"
    /\ extraPc' = "calling"
    /\ UNCHANGED <<authVars, serverVars, onceVars, chanVars, reqVars, waitVars>>

\* variant: a later call does not find once.Do done and stops the server again
ExtraShutdownReturn_StopAgain ==
    /\ extraPc = "calling"
    /\ onceState = "done"
    /\ extraPc' = "idle"
    /\ stops' = stops + 1
    /\ UNCHANGED <<authVars, serverVars, onceState, chanVars, reqVars, waitVars>>

\* that call returns once the body of once.Do has completed
ExtraShutdownReturn ==
    /\ extraPc = "calling"
    /\ onceState = "done"
    /\ extraPc' = "idle"
    /\ UNCHANGED <<authVars, serverVars, onceVars, chanVars, reqVars, waitVars>>

(***************************************************************************)
(* runAuth after WaitForCode.                                              *)
(***************************************************************************)
\* variant: when the wait fails, runAuth registers the application again
AuthCodeReceived_Retry ==
    /\ authPc = "wait"
    /\ waitPc = "returned"
    /\ authPc' = IF outcome.err # Nil THEN "register" ELSE "exchange"
    /\ UNCHANGED <<store, domain, port, bound, urlShown, browser, authErr,
                   store0, passed, cmdVars, prompt, calls, exchanged, registered, sessionVars>>

\* if err != nil { return ... } after WaitForCode
AuthCodeReceived ==
    /\ authPc = "wait"
    /\ waitPc = "returned"
    /\ authPc' = IF outcome.err # Nil THEN "failed" ELSE "exchange"
    /\ authErr' = IF outcome.err # Nil THEN ErrGetCode ELSE authErr
    /\ UNCHANGED <<store, domain, port, bound, urlShown, browser, store0, passed, cmdVars, prompt, calls, exchanged, registered,
                   sessionVars>>

\* variant: runAuth notes the error of the token exchange and goes on
AuthGetAccessToken_ErrorIgnored ==
    /\ authPc = "exchange"
    /\ \E ok \in BOOLEAN :
        /\ authPc' = "saveToken"
        /\ authErr' = IF ok THEN authErr ELSE ErrGetToken
        /\ exchanged' = IF ok THEN outcome.code ELSE exchanged
    /\ calls' = Called("GetAccessToken")
    /\ passed' = Passed("GetAccessToken")
    /\ UNCHANGED <<store, domain, port, bound, urlShown, browser, store0, cmdVars, prompt, registered,
                   sessionVars>>

\* client.GetAccessToken
AuthGetAccessToken ==
    /\ authPc = "exchange"
    /\ \E ok \in BOOLEAN :
        /\ authPc' = IF ok THEN "saveToken" ELSE "failed"
        /\ authErr' = IF ok THEN authErr ELSE ErrGetToken
        /\ exchanged' = IF ok THEN outcome.code ELSE exchanged
    /\ calls' = Called("GetAccessToken")
    /\ passed' = Passed("GetAccessToken")
    /\ UNCHANGED <<store, domain, port, bound, urlShown, browser, store0, cmdVars, prompt, registered,
                   sessionVars>>

\* variant: a failed save of the token puts the store back as the run found it
AuthSaveToken_Rollback ==
    /\ authPc = "saveToken"
    /\ \/ /\ store' = [store EXCEPT !["access_token"] = "token"]
          /\ authPc' = "done"
          /\ UNCHANGED authErr
       \/ /\ authPc' = "failed"
          /\ authErr' = ErrSaveToken
          /\ store' = store0
    /\ UNCHANGED <<domain, port, bound, urlShown, browser, store0, passed, cmdVars, prompt, calls, exchanged, registered, sessionVars>>

AuthSaveToken ==
    AuthSet("saveToken", "access_token", "token", "done", ErrSaveToken)

\* every step but the call of OpenBrowser
StepsBesideOpenBrowser ==
    \/ AuthCheckToken
    \/ AuthReadDomain
    \/ NewCallbackServer
    \/ AuthRegisterApp
    \/ AuthSaveDomain
    \/ AuthSaveClientID
    \/ AuthSaveClientSecret
    \/ Start
    \/ ServeEnter
    \/ \E r \in Requests, code \in CodeParams : ServeAccept(r, code)
    \/ ServeAcceptError
    \/ ServeSendErr
    \/ ServeClosed
    \/ \E r \in Requests : handleCallback(r)
    \/ AuthDisplayURL
    \/ WaitForCode
    \/ TimerFire
    \/ WaitSelect
    \/ WaitReturn
    \/ shutdown
    \/ ShutdownReturn
    \/ ExtraShutdown
    \/ ExtraShutdownReturn
    \/ AuthCodeReceived
    \/ AuthGetAccessToken
    \/ AuthSaveToken

Next ==
    \/ StepsBesideOpenBrowser
    \/ OpenBrowser

Spec == Init /\ [][Next]_vars

(***************************************************************************)
(* Scheduling: every goroutine that can take a step is eventually run, and *)
(* time passes, so an armed timer fires and a context deadline expires.    *)
(* What the environment does (requests arriving, Accept failing, other     *)
(* callers of shutdown, the user's answers) is not forced to happen.       *)
(***************************************************************************)
Fairness ==
    /\ WF_vars(ServeEnter)
    /\ WF_vars(ServeSendErr)
    /\ WF_vars(ServeClosed)
    /\ WF_vars(\E r \in Requests : handleCallback(r))
    /\ WF_vars(TimerFire)
    /\ WF_vars(WaitSelect)
    /\ WF_vars(WaitReturn)
    /\ WF_vars(shutdown)
    /\ WF_vars(ShutdownReturn)
    /\ WF_vars(ExtraShutdownReturn)
    /\ WF_vars(AuthCodeReceived)

FairSpec == Spec /\ Fairness

(***************************************************************************)
(* The creation and the start of the callback server for every number      *)
(* rand.Int can draw: runAuth from oauth.NewCallbackServer to the return   *)
(* of Start, entered with the domain read and nothing stored yet.          *)
(***************************************************************************)
PortInit ==
    /\ store = EmptyStore
    /\ store0 = EmptyStore
    /\ registered = FALSE
    /\ exchanged = ""
    /\ prompt = "none"
    /\ passed = [op \in RedirectTakers |-> <<>>]
    /\ tui = NoTUI
    /\ history = <<>>
    /\ log = <<>>
    /\ last = NoCommand
    /\ server = [statuses |-> {}, media |-> 0]
    /\ calls = [op \in Operations |-> 0]
    /\ authPc = "newServer"
    /\ domain = "https://mastodon.social"
    /\ port = 0
    /\ bound = NotBound
    /\ urlShown = FALSE
    /\ browser = "none"
    /\ authErr = Nil
    /\ listener = "none"
    /\ servePc = "none"
    /\ inShutdown = FALSE
    /\ onceState = "fresh"
    /\ stops = 0
    /\ codeChan = <<>>
    /\ errChan = <<>>
    /\ reqPc = [r \in Requests |-> "new"]
    /\ reqCode = [r \in Requests |-> ""]
    /\ reqStatus = [r \in Requests |-> ""]
    /\ delivered = <<>>
    /\ timer = "off"
    /\ waitPc = "idle"
    /\ outcome = NoOutcome
    /\ resolved = NoResolve
    /\ outcomes = <<>>
    /\ extraPc = "idle"

PortNext ==
    \/ NewCallbackServerWith(0..(PortRange - 1))
    \/ AuthRegisterApp
    \/ AuthSaveDomain
    \/ AuthSaveClientID
    \/ AuthSaveClientSecret
    \/ Start

PortSpec == PortInit /\ [][PortNext]_vars

(***************************************************************************)
(* The whole flow with the result of OpenBrowser kept in the history.      *)
(***************************************************************************)
BrowserNext ==
    \/ StepsBesideOpenBrowser
    \/ OpenBrowserObserved

BrowserSpec == Init /\ [][BrowserNext]_vars

(***************************************************************************)
(* The store (package config): a config table with the key as primary key  *)
(* and the post_history table.  The config table is the function `store`   *)
(* of its keys, "" standing for a key without row (Get returns "" for such *)
(* a key as it does for a row holding ""); post_history is the sequence of *)
(* its status IDs by ascending row id.  Every statement can fail with an   *)
(* error of the database, and then changes nothing.                        *)
(***************************************************************************)
Entry(op, key, value) == [op |-> op, key |-> key, value |-> value]
Range(seq) == {seq[i] : i \in 1..Len(seq)}
\* the variables no operation of the store touches
notStoreVars == <<runVars, sessionVars, server, tui>>

\* Store.Get: the value of the row of the key, ("", nil) when there is none
\* (sql.ErrNoRows), ("", err) when the query fails
Get(key, ok) ==
    IF ok THEN [value |-> store[key], err |-> Nil]
    ELSE [value |-> "", err |-> ErrDB]

\* variant: INSERT OR IGNORE, a row of the key is kept as it is
Set_InsertOrIgnore ==
    \E key \in Keys, value \in Values, ok \in BOOLEAN :
        /\ Len(log) < MaxOps
        /\ IF ok
           THEN /\ store' = IF store[key] = "" THEN [store EXCEPT ![key] = value]
                             ELSE store
                /\ log' = Append(log, Entry("Set", key, value))
           ELSE UNCHANGED <<store, log>>
        /\ UNCHANGED <<history, last, notStoreVars>>

\* Store.Set: INSERT OR REPLACE INTO config
Set ==
    \E key \in Keys, value \in Values, ok \in BOOLEAN :
        /\ Len(log) < MaxOps
        /\ IF ok
           THEN /\ store' = [store EXCEPT ![key] = value]
                /\ log' = Append(log, Entry("Set", key, value))
           ELSE UNCHANGED <<store, log>>
        /\ UNCHANGED <<history, last, notStoreVars>>

\* Store.Delete: DELETE FROM config WHERE key = ?
Delete ==
    \E key \in Keys, ok \in BOOLEAN :
        /\ Len(log) < MaxOps
        /\ IF ok
           THEN /\ store' = [store EXCEPT ![key] = ""]
                /\ log' = Append(log, Entry("Delete", key, ""))
           ELSE UNCHANGED <<store, log>>
        /\ UNCHANGED <<history, last, notStoreVars>>

\* the steps of Store.ClearAll one of which may fail
ClearAllSteps == {"begin", "delete config", "delete post_history", "commit"}

\* variant: the two DELETEs run outside a transaction, nothing is undone
ClearAll_NoRollback ==
    \E failAt \in ClearAllSteps \cup {"none"} :
        /\ Len(log) < MaxOps
        /\ IF failAt = "none"
           THEN /\ store' = EmptyStore
                /\ history' = <<>>
                /\ log' = Append(log, Entry("ClearAll", "", ""))
           ELSE IF failAt \in {"delete post_history", "commit"}
           THEN /\ store' = EmptyStore
                /\ UNCHANGED <<history, log>>
           ELSE UNCHANGED <<store, history, log>>
        /\ last' = [cmd |-> "ClearAll", failedAt |-> failAt]
        /\ UNCHANGED notStoreVars

\* Store.ClearAll: both tables are emptied in one transaction; when a step
\* fails, the deferred tx.Rollback() undoes what the transaction did
ClearAll ==
    \E failAt \in ClearAllSteps \cup {"none"} :
        /\ Len(log) < MaxOps
        /\ IF failAt = "none"
           THEN /\ store' = EmptyStore
                /\ history' = <<>>
                /\ log' = Append(log, Entry("ClearAll", "", ""))
           ELSE UNCHANGED <<store, history, log>>
        /\ last' = [cmd |-> "ClearAll", failedAt |-> failAt]
        /\ UNCHANGED notStoreVars

\* the rows of post_history after INSERT OR IGNORE of a status ID: status_id
\* is UNIQUE, so an ID the table holds already is ignored and keeps its row
AddedTo(h, id) == IF id \in Range(h) THEN h ELSE Append(h, id)
\* the rows after DELETE FROM post_history WHERE status_id = ?
RemovedFrom(h, id) == SelectSeq(h, LAMBDA x : x # id)

\* Store.AddPostToHistory, called on its own
AddPostToHistory ==
    \E id \in StatusIDs, ok \in BOOLEAN :
        /\ Len(log) < MaxOps
        /\ IF ok
           THEN /\ history' = AddedTo(history, id)
                /\ log' = Append(log, Entry("Add", id, ""))
           ELSE UNCHANGED <<history, log>>
        /\ last' = NoCommand
        /\ UNCHANGED <<store, notStoreVars>>

\* Store.GetLastPostID: SELECT status_id ... ORDER BY id DESC LIMIT 1
GetLastPostID(ok) ==
    IF ok THEN [value |-> IF history = <<>> THEN "" ELSE history[Len(history)],
                err |-> Nil]
    ELSE [value |-> "", err |-> ErrDB]

\* Store.RemovePostFromHistory, called on its own
RemovePostFromHistory ==
    \E id \in StatusIDs, ok \in BOOLEAN :
        /\ Len(log) < MaxOps
        /\ IF ok
           THEN /\ history' = RemovedFrom(history, id)
                /\ log' = Append(log, Entry("Remove", id, ""))
           ELSE UNCHANGED <<history, log>>
        /\ last' = NoCommand
        /\ UNCHANGED <<store, notStoreVars>>

\* Store.ClearPostHistory, called on its own
ClearPostHistory ==
    \E ok \in BOOLEAN :
        /\ Len(log) < MaxOps
        /\ IF ok
           THEN /\ history' = <<>>
                /\ log' = Append(log, Entry("ClearPostHistory", "", ""))
           ELSE UNCHANGED <<history, log>>
        /\ last' = NoCommand
        /\ UNCHANGED <<store, notStoreVars>>

(***************************************************************************)
(* The config table under every sequence of its operations, from a new     *)
(* database.                                                               *)
(***************************************************************************)
ConfigInit ==
    /\ Init
    /\ store = EmptyStore

ConfigNext ==
    \/ Set
    \/ Delete
    \/ ClearAll

ConfigSpec == ConfigInit /\ [][ConfigNext]_vars

(***************************************************************************)
(* The commands `clear` and `sync` (package cmd).                          *)
(***************************************************************************)
\* variant: an empty answer counts as a confirmation
runClear_DefaultYes ==
    \E clearForce \in BOOLEAN, response \in Responses, ok \in BOOLEAN :
        /\ Len(log) < MaxOps
        /\ IF ~clearForce /\ response # "y" /\ response # "yes" /\ response # ""
           THEN /\ last' = [cmd |-> "clear", force |-> clearForce,
                            response |-> response, result |-> "cancelled"]
                /\ UNCHANGED <<history, log>>
           ELSE IF ok
           THEN /\ history' = <<>>
                /\ log' = Append(log, Entry("ClearPostHistory", "", ""))
                /\ last' = [cmd |-> "clear", force |-> clearForce,
                            response |-> IF clearForce THEN "" ELSE response,
                            result |-> "cleared"]
           ELSE /\ last' = [cmd |-> "clear", force |-> clearForce,
                            response |-> IF clearForce THEN "" ELSE response,
                            result |-> "failed to clear post history"]
                /\ UNCHANGED <<history, log>>
        /\ UNCHANGED <<store, notStoreVars>>

\* runClear: without --force the user is asked, and only "y" or "yes" (the
\* answer trimmed and lower-cased) goes on to Store.ClearPostHistory
runClear ==
    \E clearForce \in BOOLEAN, response \in Responses, ok \in BOOLEAN :
        /\ Len(log) < MaxOps
        /\ IF ~clearForce /\ response # "y" /\ response # "yes"
           THEN /\ last' = [cmd |-> "clear", force |-> clearForce,
                            response |-> response, result |-> "cancelled"]
                /\ UNCHANGED <<history, log>>
           ELSE IF ok
           THEN /\ history' = <<>>
                /\ log' = Append(log, Entry("ClearPostHistory", "", ""))
                /\ last' = [cmd |-> "clear", force |-> clearForce,
                            response |-> IF clearForce THEN "" ELSE response,
                            result |-> "cleared"]
           ELSE /\ last' = [cmd |-> "clear", force |-> clearForce,
                            response |-> IF clearForce THEN "" ELSE response,
                            result |-> "failed to clear post history"]
                /\ UNCHANGED <<history, log>>
        /\ UNCHANGED <<store, notStoreVars>>

\* what client.GetAccountStatuses can return: up to MaxFetched statuses with
\* distinct IDs, the newest first
FetchedLists ==
    {st \in UNION {[1..n -> StatusIDs] : n \in 0..MaxFetched} :
        \A i, j \in 1..Len(st) : i # j => st[i] # st[j]}

\* the loop of runSync from index i down to 1: each status is added to the
\* history, the oldest first; a failing AddPostToHistory is reported and
\* the loop goes on
RECURSIVE SyncLoop(_, _, _, _)
SyncLoop(h, statuses, i, failing) ==
    IF i = 0 THEN h
    ELSE SyncLoop(IF i \in failing THEN h ELSE AddedTo(h, statuses[i]),
                  statuses, i - 1, failing)

\* the calls of AddPostToHistory in that loop that returned nil, in order
RECURSIVE SyncEntries(_, _, _)
SyncEntries(statuses, i, failing) ==
    IF i = 0 THEN <<>>
    ELSE (IF i \in failing THEN <<>> ELSE <<Entry("Add", statuses[i], "")>>)
             \o SyncEntries(statuses, i - 1, failing)

\* runSync
runSync ==
    \E tokenOk \in BOOLEAN, fetchOk \in BOOLEAN, statuses \in FetchedLists :
    \E failing \in SUBSET (1..Len(statuses)) :
        /\ Len(log) + Len(statuses) <= MaxOps
        /\ IF Get("access_token", tokenOk).value = ""
           THEN /\ last' = [cmd |-> "sync", requests |-> {},
                            result |-> "not authenticated"]
                /\ UNCHANGED <<history, log>>
           ELSE IF ~fetchOk
           THEN /\ last' = [cmd |-> "sync", requests |-> {"GetAccountStatuses"},
                            result |-> "failed to fetch statuses"]
                /\ UNCHANGED <<history, log>>
           ELSE IF Len(statuses) = 0
           THEN /\ last' = [cmd |-> "sync", requests |-> {"GetAccountStatuses"},
                            result |-> "no posts found"]
                /\ UNCHANGED <<history, log>>
           ELSE /\ history' = SyncLoop(history, statuses, Len(statuses), failing)
                /\ log' = log \o SyncEntries(statuses, Len(statuses), failing)
                /\ last' = [cmd |-> "sync", requests |-> {"GetAccountStatuses"},
                            result |-> "synced",
                            syncedCount |-> Len(statuses) - Cardinality(failing),
                            mostRecent |-> statuses[1]]
        /\ UNCHANGED <<store, notStoreVars>>

(***************************************************************************)
(* The command `post` (package cmd).                                       *)
(***************************************************************************)
\* the outcome of runPost before it builds the parameters of the status: ""
\* when it gets that far, else the reason of its return.  failAt is the call
\* that fails (at most one does), replyID the status replied to.
PostPrelude(reply, replyID, text, image, alt, response, failAt) ==
    IF Get("access_token", failAt # "Get").value = "" THEN "not authenticated"
    ELSE IF reply.kind = "tui" /\ failAt = "runReplyTUI" THEN "reply TUI failed"
    ELSE IF reply.kind = "tui" /\ reply.id = "" THEN "no post selected"
    ELSE IF reply.kind = "last" /\ failAt = "GetLastPostID"
         THEN "failed to get last post ID"
    ELSE IF reply.kind = "last" /\ replyID = "" THEN "no last post found"
    ELSE IF failAt = "getStatusText" THEN "failed to get status text"
    ELSE IF text = "" THEN "status text cannot be empty"
    ELSE IF replyID # "" /\ failAt = "GetStatus"
         THEN "failed to get status to reply to"
    ELSE IF image /\ ~alt /\ response # "y" /\ response # "yes" THEN "cancelled"
    ELSE IF image /\ failAt = "ProcessImage" THEN "failed to process image"
    ELSE IF image /\ failAt = "UploadMedia" THEN "failed to upload image"
    ELSE ""

\* the calls among PostSteps that runPost can come to with these flags
PostCalls(reply, image, dryRun) ==
    {"Get", "getStatusText"}
    \cup (IF reply.kind = "tui" THEN {"runReplyTUI"} ELSE {})
    \cup (IF reply.kind = "last" THEN {"GetLastPostID"} ELSE {})
    \cup (IF reply.kind # "none" THEN {"GetStatus"} ELSE {})
    \cup (IF image THEN {"ProcessImage", "UploadMedia"} ELSE {})
    \cup (IF dryRun THEN {} ELSE {"PostStatus", "AddPostToHistory"})

\* the methods of the client runPost has called when it returns
PostRequests(reply, replyID, image, dryRun, early) ==
    (IF reply.kind = "tui" /\ early # "not authenticated"
     THEN {"GetAccountStatuses"} ELSE {})
    \cup (IF replyID # "" /\ early \in {"", "failed to get status to reply to",
                                         "cancelled", "failed to process image",
                                         "failed to upload image"}
          THEN {"GetStatus"} ELSE {})
    \cup (IF image /\ early \in {"", "failed to upload image"}
          THEN {"UploadMedia"} ELSE {})
    \cup (IF early = "" /\ ~dryRun THEN {"PostStatus"} ELSE {})

\* variant: a failure to record the post is returned as the error of the command
runPost_HistoryErrorFatal ==
    \E dryRun \in BOOLEAN, reply \in ReplyModes, text \in {"", "hello"},
       image \in BOOLEAN :
    \E failAt \in (PostSteps \cap PostCalls(reply, image, dryRun)) \cup {"none"} :
    \E alt \in IF image THEN BOOLEAN ELSE {FALSE} :
    \E response \in IF image /\ ~alt THEN Responses ELSE {""} :
        LET \* the ID the server gives the new status
            id == CHOOSE new \in StatusIDs \ server.statuses : TRUE
            replyID == IF reply.kind = "last" THEN GetLastPostID(TRUE).value
                       ELSE reply.id
            early == PostPrelude(reply, replyID, text, image, alt, response, failAt)
            uploaded == [server EXCEPT !.media = IF image THEN @ + 1 ELSE @]
            result == IF early # "" THEN early
                      ELSE IF dryRun THEN "dry run"
                      ELSE IF failAt = "PostStatus" THEN "failed to post status"
                      ELSE IF failAt = "AddPostToHistory"
                      THEN "failed to add post to history"
                      ELSE "posted"
        IN  /\ Len(log) < MaxOps
            /\ server.media < MaxOps
            /\ server.statuses # StatusIDs
            /\ \E visibility \in IF early = "" THEN Visibilities ELSE {"public"} :
                   visibility \in Visibilities
            /\ last' = [cmd |-> "post", dryRun |-> dryRun, image |-> image,
                        requests |-> PostRequests(reply, replyID, image, dryRun, early),
                        id |-> IF result = "posted" THEN id ELSE "",
                        historyError |-> early = "" /\ ~dryRun
                                         /\ failAt = "AddPostToHistory",
                        result |-> result]
            /\ IF early # "" THEN UNCHANGED <<server, history, log>>
               ELSE IF dryRun \/ failAt = "PostStatus"
               THEN server' = uploaded /\ UNCHANGED <<history, log>>
               ELSE /\ server' = [uploaded EXCEPT !.statuses = @ \cup {id}]
                    /\ IF failAt = "AddPostToHistory"
                       THEN UNCHANGED <<history, log>>
                       ELSE /\ history' = AddedTo(history, id)
                            /\ log' = Append(log, Entry("Add", id, ""))
            /\ UNCHANGED <<store, runVars, sessionVars, tui>>

\* runPost: the reply target is determined, the text read, the image (if
\* any) processed and uploaded; then, unless --dry-run, the status is posted
\* and its ID added to the history
runPost ==
    \E dryRun \in BOOLEAN, reply \in ReplyModes, text \in {"", "hello"},
       image \in BOOLEAN :
    \E failAt \in (PostSteps \cap PostCalls(reply, image, dryRun)) \cup {"none"} :
    \E alt \in IF image THEN BOOLEAN ELSE {FALSE} :
    \E response \in IF image /\ ~alt THEN Responses ELSE {""} :
        LET \* the ID the server gives the new status
            id == CHOOSE new \in StatusIDs \ server.statuses : TRUE
            replyID == IF reply.kind = "last" THEN GetLastPostID(TRUE).value
                       ELSE reply.id
            early == PostPrelude(reply, replyID, text, image, alt, response, failAt)
            uploaded == [server EXCEPT !.media = IF image THEN @ + 1 ELSE @]
            result == IF early # "" THEN early
                      ELSE IF dryRun THEN "dry run"
                      ELSE IF failAt = "PostStatus" THEN "failed to post status"
                      ELSE "posted"
        IN  /\ Len(log) < MaxOps
            /\ server.media < MaxOps
            /\ server.statuses # StatusIDs
            /\ \E visibility \in IF early = "" THEN Visibilities ELSE {"public"} :
                   visibility \in Visibilities
            /\ last' = [cmd |-> "post", dryRun |-> dryRun, image |-> image,
                        requests |-> PostRequests(reply, replyID, image, dryRun, early),
                        id |-> IF result = "posted" THEN id ELSE "",
                        historyError |-> early = "" /\ ~dryRun
                                         /\ failAt = "AddPostToHistory",
                        result |-> result]
            /\ IF early # "" THEN UNCHANGED <<server, history, log>>
               ELSE IF dryRun \/ failAt = "PostStatus"
               THEN server' = uploaded /\ UNCHANGED <<history, log>>
               ELSE /\ server' = [uploaded EXCEPT !.statuses = @ \cup {id}]
                    /\ IF failAt = "AddPostToHistory"
                       THEN UNCHANGED <<history, log>>
                       ELSE /\ history' = AddedTo(history, id)
                            /\ log' = Append(log, Entry("Add", id, ""))
            /\ UNCHANGED <<store, runVars, sessionVars, tui>>

(***************************************************************************)
(* The post history under every sequence of the operations and commands    *)
(* that act on it, for an authenticated user with no history yet.          *)
(***************************************************************************)
HistoryInit ==
    /\ Init
    /\ store = OldStore

HistoryNext ==
    \/ AddPostToHistory
    \/ RemovePostFromHistory
    \/ ClearPostHistory
    \/ ClearAll
    \/ runClear
    \/ runSync

HistorySpec == HistoryInit /\ [][HistoryNext]_vars

(***************************************************************************)
(* The command `post` run again and again by an authenticated user, with    *)
(* every combination of its flags and inputs.                              *)
(***************************************************************************)
PostNext == runPost

PostSpec == HistoryInit /\ [][PostNext]_vars

(***************************************************************************)
(* The command `delete` without --tui (package cmd).                       *)
(***************************************************************************)
\* the calls of runDelete one of which may fail
DeleteSteps == {"Get", "GetLastPostID", "DeleteStatus", "RemovePostFromHistory"}

\* the outcome of runDelete before it calls the server: "" when it gets that
\* far, else the reason of its return.  statusID is the status it settled on.
DeletePrelude(deleteLatest, statusID, deleteForce, response, failAt) ==
    IF Get("access_token", failAt # "Get").value = "" THEN "not authenticated"
    ELSE IF deleteLatest /\ failAt = "GetLastPostID"
         THEN "failed to get last post ID"
    ELSE IF deleteLatest /\ statusID = "" THEN "no posts in history"
    ELSE IF statusID = "" THEN "must provide status ID or use --latest flag"
    ELSE IF ~deleteForce /\ response # "y" /\ response # "yes" THEN "cancelled"
    ELSE ""

\* variant: the history entry is removed before the server is asked, and
\* stays removed when the server refuses
runDelete_RemoveFirst ==
    \E deleteLatest \in BOOLEAN, deleteForce \in BOOLEAN,
       failAt \in DeleteSteps \cup {"none"} :
    \E arg \in IF deleteLatest THEN {""} ELSE StatusIDs \cup {""} :
    \E response \in IF deleteForce THEN {""} ELSE Responses :
        LET statusID == IF deleteLatest THEN GetLastPostID(TRUE).value ELSE arg
            early == DeletePrelude(deleteLatest, statusID, deleteForce, response,
                                   failAt)
            removes == early = "" /\ failAt # "RemovePostFromHistory"
        IN  /\ Len(log) < MaxOps
            /\ tui = NoTUI
            /\ last' = [cmd |-> "delete", id |-> statusID, force |-> deleteForce,
                        response |-> response,
                        requests |-> IF early = "" THEN {"DeleteStatus"} ELSE {},
                        deleted |-> IF early = "" /\ failAt # "DeleteStatus"
                                    THEN {statusID} ELSE {},
                        unremoved |-> IF early = "" /\ failAt = "RemovePostFromHistory"
                                      THEN {statusID} ELSE {},
                        result |-> IF early # "" THEN early
                                   ELSE IF failAt = "DeleteStatus"
                                   THEN "failed to delete status"
                                   ELSE "deleted"]
            /\ server' = IF early = "" /\ failAt # "DeleteStatus"
                         THEN [server EXCEPT !.statuses = @ \ {statusID}]
                         ELSE server
            /\ IF removes
               THEN /\ history' = RemovedFrom(history, statusID)
                    /\ log' = Append(log, Entry("Remove", statusID, ""))
               ELSE UNCHANGED <<history, log>>
            /\ UNCHANGED <<store, runVars, sessionVars, tui>>

\* variant: --latest needs no confirmation
runDelete_LatestUnasked ==
    \E deleteLatest \in BOOLEAN, deleteForce \in BOOLEAN,
       failAt \in DeleteSteps \cup {"none"} :
    \E arg \in IF deleteLatest THEN {""} ELSE StatusIDs \cup {""} :
    \E response \in IF deleteForce THEN {""} ELSE Responses :
        LET statusID == IF deleteLatest THEN GetLastPostID(TRUE).value ELSE arg
            early == DeletePrelude(deleteLatest, statusID,
                                   deleteForce \/ deleteLatest, response, failAt)
            deleted == early = "" /\ failAt # "DeleteStatus"
        IN  /\ Len(log) < MaxOps
            /\ tui = NoTUI
            /\ last' = [cmd |-> "delete", id |-> statusID, force |-> deleteForce,
                        response |-> response,
                        requests |-> IF early = "" THEN {"DeleteStatus"} ELSE {},
                        deleted |-> IF deleted THEN {statusID} ELSE {},
                        unremoved |-> IF deleted /\ failAt = "RemovePostFromHistory"
                                      THEN {statusID} ELSE {},
                        result |-> IF early # "" THEN early
                                   ELSE IF failAt = "DeleteStatus"
                                   THEN "failed to delete status"
                                   ELSE "deleted"]
            /\ server' = IF deleted
                         THEN [server EXCEPT !.statuses = @ \ {statusID}]
                         ELSE server
            /\ IF deleted /\ failAt # "RemovePostFromHistory"
               THEN /\ history' = RemovedFrom(history, statusID)
                    /\ log' = Append(log, Entry("Remove", statusID, ""))
               ELSE UNCHANGED <<history, log>>
            /\ UNCHANGED <<store, runVars, sessionVars, tui>>

\* runDelete without --tui (run while no TUI is open): the status is the top of the history (--latest)
\* or the argument; unless --force the user is asked, and only "y" or "yes"
\* goes on; client.DeleteStatus, and when it succeeded
\* store.RemovePostFromHistory, whose failure is printed and nothing more
runDelete ==
    \E deleteLatest \in BOOLEAN, deleteForce \in BOOLEAN,
       failAt \in DeleteSteps \cup {"none"} :
    \E arg \in IF deleteLatest THEN {""} ELSE StatusIDs \cup {""} :
    \E response \in IF deleteForce THEN {""} ELSE Responses :
        LET statusID == IF deleteLatest THEN GetLastPostID(TRUE).value ELSE arg
            early == DeletePrelude(deleteLatest, statusID, deleteForce, response,
                                   failAt)
            deleted == early = "" /\ failAt # "DeleteStatus"
        IN  /\ Len(log) < MaxOps
            /\ tui = NoTUI
            /\ last' = [cmd |-> "delete", id |-> statusID, force |-> deleteForce,
                        response |-> response,
                        requests |-> IF early = "" THEN {"DeleteStatus"} ELSE {},
                        deleted |-> IF deleted THEN {statusID} ELSE {},
                        unremoved |-> IF deleted /\ failAt = "RemovePostFromHistory"
                                      THEN {statusID} ELSE {},
                        result |-> IF early # "" THEN early
                                   ELSE IF failAt = "DeleteStatus"
                                   THEN "failed to delete status"
                                   ELSE "deleted"]
            /\ server' = IF deleted
                         THEN [server EXCEPT !.statuses = @ \ {statusID}]
                         ELSE server
            /\ IF deleted /\ failAt # "RemovePostFromHistory"
               THEN /\ history' = RemovedFrom(history, statusID)
                    /\ log' = Append(log, Entry("Remove", statusID, ""))
               ELSE UNCHANGED <<history, log>>
            /\ UNCHANGED <<store, runVars, sessionVars, tui>>

(***************************************************************************)
(* The selection TUIs (package cmd): deleteModel of `delete --tui`,        *)
(* replySelectModel of `post --reply-tui` and editSelectModel of           *)
(* `edit --tui`.  bubbletea runs the program: it hands every key and every *)
(* message of a finished command to Update; the command tea.Quit makes it  *)
(* stop, which it does when it comes to the quit message, so that keys     *)
(* already typed may still reach Update before Run returns the model.      *)
(***************************************************************************)
TUIKinds == {"delete", "reply", "edit"}
\* the keys told apart by the Update methods, and one they all ignore
TUIKeys == {"ctrl+c", "q", "up", "k", "down", "j", " ", "s", "d", "enter", "x"}
\* the error of client.GetAccountStatuses
ErrFetch == "failed to get statuses"
ErrRunTUI == "error running TUI"

\* the statuses of the account from the newest to the oldest
Timeline == <<"s3", "s2", "s1">>

\* what client.GetAccountStatuses returns to a TUI: statuses of the account
\* (some may have been deleted, by this program or elsewhere) in the order
\* of the timeline, MaxFetched of them at most
ListedStatuses ==
    {st \in FetchedLists :
        \A i, j \in 1..Len(st) :
            i < j => \E a, b \in 1..Len(Timeline) :
                         a < b /\ Timeline[a] = st[i] /\ Timeline[b] = st[j]}

\* loadStatuses, loadReplyStatuses, loadEditStatuses: one item for each
\* status fetched, in the order of the server, none selected
Items(list) == [i \in 1..Len(list) |-> [id |-> list[i], selected |-> FALSE]]

\* initialModel, initialReplyModel, initialEditModel: the statuses are
\* loaded (ok) or the error is kept; `run` is the state of the program
\* ("running", "stopping" once tea.Quit was returned, "ended"), deleteAction
\* the history of whether the delete action (d with a selection) was taken
InitialModel(kind, ok, list) ==
    [kind |-> kind,
     statuses |-> IF ok THEN Items(list) ELSE <<>>,
     cursor |-> 0,
     syncing |-> FALSE,
     err |-> IF ok THEN Nil ELSE ErrFetch,
     selected |-> FALSE,
     quitting |-> FALSE,
     deleteAction |-> FALSE,
     run |-> "running"]

\* the IDs of the selected items, in the order of the list
SelectedIDs(m) ==
    LET sel == SelectSeq(m.statuses, LAMBDA item : item.selected)
    IN  [i \in 1..Len(sel) |-> sel[i].id]

\* Update on a tea.KeyMsg: the model it returns
UpdateKey(m, key) ==
    IF m.syncing THEN m
    ELSE IF key \in {"ctrl+c", "q"}
    THEN [m EXCEPT !.quitting = IF m.kind = "delete" THEN TRUE ELSE @,
                   !.run = "stopping"]
    ELSE IF key \in {"up", "k"}
    THEN IF m.cursor > 0 THEN [m EXCEPT !.cursor = @ - 1] ELSE m
    ELSE IF key \in {"down", "j"}
    THEN IF m.cursor < Len(m.statuses) - 1 THEN [m EXCEPT !.cursor = @ + 1] ELSE m
    ELSE IF key = "s" THEN [m EXCEPT !.syncing = TRUE]
    ELSE IF m.kind = "delete"
    THEN IF key = " "
         THEN IF Len(m.statuses) > 0
              THEN [m EXCEPT !.statuses[m.cursor + 1].selected = ~@]
              ELSE m
         ELSE IF key = "d"
         THEN IF SelectedIDs(m) = <<>> THEN m
              ELSE [m EXCEPT !.quitting = TRUE, !.deleteAction = TRUE,
                             !.run = "stopping"]
         ELSE m
    ELSE IF key \in {"enter", " "}
    THEN [m EXCEPT !.selected = TRUE, !.run = "stopping"]
    ELSE m

\* variant: after a sync the cursor stays where it was
UpdateSync_KeepCursor(m, msgOk, ok, list) ==
    IF ~msgOk \/ ~ok THEN [m EXCEPT !.syncing = FALSE, !.err = ErrFetch]
    ELSE [m EXCEPT !.syncing = FALSE, !.statuses = Items(list)]

\* Update on the message of the sync command: msgOk tells whether the
\* command's own load succeeded; the statuses are then loaded once more
\* (ok, list) and replace the list, the cursor going back to the top
UpdateSync(m, msgOk, ok, list) ==
    IF ~msgOk \/ ~ok THEN [m EXCEPT !.syncing = FALSE, !.err = ErrFetch]
    ELSE [m EXCEPT !.syncing = FALSE, !.statuses = Items(list), !.cursor = 0]

tuiFrame == <<store, runVars, sessionVars, history, log, server>>

\* the command's name in the record `last`
CommandOf(kind) == IF kind = "delete" THEN "delete --tui"
                   ELSE IF kind = "reply" THEN "post --reply-tui"
                   ELSE "edit --tui"

\* runDelete, runPost and runEdit up to tea.NewProgram(...): the token is
\* read (its error dropped), and the first model is built
StartTUI(kind) ==
    \E tokenOk \in BOOLEAN, ok \in BOOLEAN :
    \E list \in IF tokenOk /\ ok THEN ListedStatuses ELSE {<<>>} :
        /\ tui = NoTUI
        /\ IF Get("access_token", tokenOk).value = ""
           THEN /\ last' = [cmd |-> CommandOf(kind), requests |-> {},
                            result |-> "not authenticated"]
                /\ UNCHANGED tui
           ELSE /\ tui' = InitialModel(kind, ok, list)
                /\ last' = [cmd |-> CommandOf(kind),
                            requests |-> {"GetAccountStatuses"},
                            result |-> "running"]
        /\ UNCHANGED tuiFrame

\* a key reaches Update
Update ==
    \E key \in TUIKeys :
        /\ tui # NoTUI
        /\ tui.run # "ended"
        /\ tui' = UpdateKey(tui, key)
        /\ UNCHANGED <<last, tuiFrame>>

\* the sync command (doSync, doReplySync, doEditSync) has run and its
\* message reaches Update
SyncComplete ==
    \E msgOk \in BOOLEAN, ok \in BOOLEAN :
    \E list \in IF msgOk /\ ok THEN ListedStatuses ELSE {<<>>} :
        /\ tui # NoTUI
        /\ tui.run # "ended"
        /\ tui.syncing
        /\ tui' = UpdateSync(tui, msgOk, ok, list)
        /\ UNCHANGED <<last, tuiFrame>>

\* the program comes to the quit message: p.Run() returns the model
Quit ==
    /\ tui # NoTUI
    /\ tui.run = "stopping"
    /\ tui' = [tui EXCEPT !.run = "ended"]
    /\ UNCHANGED <<last, tuiFrame>>

\* the rows of post_history with the IDs of S deleted
RemoveAll(h, S) == SelectSeq(h, LAMBDA x : x \notin S)

\* the log entries of the removals of ids, leaving out those of S
RemoveEntries(ids, S) ==
    LET kept == SelectSeq(ids, LAMBDA x : x \notin S)
    IN  [i \in 1..Len(kept) |-> Entry("Remove", kept[i], "")]

\* runDeleteTUI after p.Run(): the selected posts are the items marked in
\* the final model; the user is asked once for all of them, each is deleted
\* on the server (failing: those the server refuses) and then removed from
\* the history (unremoved: those whose removal fails, which is printed)
runDeleteTUI ==
    /\ tui # NoTUI
    /\ tui.kind = "delete"
    /\ tui.run = "ended"
    /\ \E runOk \in BOOLEAN :
       \E response \in IF runOk /\ tui.err = Nil /\ SelectedIDs(tui) # <<>>
                        THEN Responses ELSE {""} :
       \E failing \in IF response \in {"y", "yes"}
                       THEN SUBSET Range(SelectedIDs(tui)) ELSE {{}} :
       \E unremoved \in SUBSET (IF response \in {"y", "yes"}
                                 THEN Range(SelectedIDs(tui)) \ failing ELSE {}) :
           LET selectedIDs == SelectedIDs(tui)
               early == IF ~runOk THEN ErrRunTUI
                        ELSE IF tui.err # Nil THEN tui.err
                        ELSE IF selectedIDs = <<>> THEN "no posts selected"
                        ELSE IF response # "y" /\ response # "yes" THEN "cancelled"
                        ELSE ""
               prompted == runOk /\ tui.err = Nil /\ selectedIDs # <<>>
               deleted == IF early = "" THEN Range(selectedIDs) \ failing ELSE {}
               lost == IF early = "" THEN unremoved ELSE {}
           IN  /\ Len(log) + Len(selectedIDs) <= MaxOps
               /\ tui' = NoTUI
               /\ last' = [cmd |-> "delete --tui",
                           deleteAction |-> tui.deleteAction,
                           selected |-> Range(selectedIDs),
                           prompted |-> prompted,
                           response |-> IF prompted THEN response ELSE "",
                           requests |-> {"GetAccountStatuses"} \cup
                                        (IF early = "" THEN {"DeleteStatus"} ELSE {}),
                           deleted |-> deleted,
                           unremoved |-> lost,
                           result |-> IF early # "" THEN early ELSE "deleted"]
               /\ server' = [server EXCEPT !.statuses = @ \ deleted]
               /\ history' = RemoveAll(history, deleted \ lost)
               /\ log' = IF early = "" THEN log \o RemoveEntries(selectedIDs, failing \cup lost)
                         ELSE log
               /\ UNCHANGED <<store, runVars, sessionVars>>

\* runReplyTUI and runEditTUI after p.Run(): the ID of the item under the
\* cursor when one was selected, "" when the user quit or the list is empty
runSelectTUI ==
    \E runOk \in BOOLEAN :
        /\ tui # NoTUI
        /\ tui.kind \in {"reply", "edit"}
        /\ tui.run = "ended"
        /\ tui' = NoTUI
        /\ last' = [cmd |-> CommandOf(tui.kind),
                    requests |-> {"GetAccountStatuses"},
                    err |-> IF ~runOk THEN ErrRunTUI ELSE tui.err,
                    returned |-> IF ~runOk \/ tui.err # Nil THEN ""
                                 ELSE IF ~tui.selected \/ Len(tui.statuses) = 0 THEN ""
                                 ELSE tui.statuses[tui.cursor + 1].id]
        /\ UNCHANGED tuiFrame

(***************************************************************************)
(* The command `delete`, with and without --tui (DeleteSpec), and the      *)
(* three selection TUIs (TUISpec), run by an authenticated user who has    *)
(* posted three statuses, all of them in the history.                      *)
(***************************************************************************)
PostedInit ==
    /\ store = OldStore
    /\ authPc = "checkToken"
    /\ domain = ""
    /\ port = 0
    /\ bound = NotBound
    /\ urlShown = FALSE
    /\ browser = "none"
    /\ authErr = Nil
    /\ store0 = store
    /\ registered = FALSE
    /\ exchanged = ""
    /\ prompt = "none"
    /\ passed = [op \in RedirectTakers |-> <<>>]
    /\ tui = NoTUI
    /\ history = <<"s1", "s2", "s3">>
    /\ log = <<>>
    /\ last = NoCommand
    /\ server = [statuses |-> StatusIDs, media |-> 0]
    /\ calls = [op \in Operations |-> 0]
    /\ listener = "none"
    /\ servePc = "none"
    /\ inShutdown = FALSE
    /\ onceState = "fresh"
    /\ stops = 0
    /\ codeChan = <<>>
    /\ errChan = <<>>
    /\ reqPc = [r \in Requests |-> "new"]
    /\ reqCode = [r \in Requests |-> ""]
    /\ reqStatus = [r \in Requests |-> ""]
    /\ delivered = <<>>
    /\ timer = "off"
    /\ waitPc = "idle"
    /\ outcome = NoOutcome
    /\ resolved = NoResolve
    /\ outcomes = <<>>
    /\ extraPc = "idle"

DeleteNext ==
    \/ runDelete
    \/ StartTUI("delete")
    \/ Update
    \/ SyncComplete
    \/ Quit
    \/ runDeleteTUI

DeleteSpec == PostedInit /\ [][DeleteNext]_vars

TUINext ==
    \/ \E kind \in TUIKinds : StartTUI(kind)
    \/ Update
    \/ SyncComplete
    \/ Quit
    \/ runDeleteTUI
    \/ runSelectTUI

TUISpec == PostedInit /\ [][TUINext]_vars

(***************************************************************************)
(* The commands `logout` and `latest`.                                     *)
(***************************************************************************)
\* runLogout: with no token read from the store it reports that nobody is
\* authenticated and returns; otherwise the token is revoked on the server,
\* a failure of which is only printed, and ClearAll empties the store
runLogout ==
    \E tokenOk \in BOOLEAN :
    \E revokeOk \in IF Get("access_token", tokenOk).value = ""
                    THEN {TRUE} ELSE BOOLEAN :
    \E failAt \in IF Get("access_token", tokenOk).value = ""
                  THEN {"none"} ELSE ClearAllSteps \cup {"none"} :
        LET accessToken == Get("access_token", tokenOk).value
        IN  /\ Len(log) < MaxOps
            /\ tui = NoTUI
            /\ IF accessToken = ""
               THEN /\ last' = [cmd |-> "logout", requests |-> {},
                                revoked |-> FALSE,
                                result |-> "not currently authenticated"]
                    /\ UNCHANGED <<store, history, log>>
               ELSE IF failAt # "none"
               THEN /\ last' = [cmd |-> "logout", requests |-> {"RevokeToken"},
                                revoked |-> revokeOk,
                                result |-> "failed to clear local data"]
                    /\ UNCHANGED <<store, history, log>>
               ELSE /\ last' = [cmd |-> "logout", requests |-> {"RevokeToken"},
                                revoked |-> revokeOk,
                                result |-> "logged out"]
                    /\ store' = EmptyStore
                    /\ history' = <<>>
                    /\ log' = Append(log, Entry("ClearAll", "", ""))
            /\ UNCHANGED notStoreVars

\* the steps of runLatest one of which may fail
LatestSteps == {"Get", "GetLastPostID", "GetStatus"}

\* variant: the last post is looked up and fetched without the token check
runLatest_NoTokenCheck ==
    \E failAt \in LatestSteps \cup {"none"} :
        LET lastPostID == GetLastPostID(failAt # "GetLastPostID").value
            result == IF failAt = "GetLastPostID" THEN "failed to get last post ID"
                      ELSE IF lastPostID = "" THEN "no posts in history"
                      ELSE IF failAt = "GetStatus" \/ lastPostID \notin server.statuses
                      THEN "failed to get status"
                      ELSE "shown"
        IN  /\ tui = NoTUI
            /\ last' = [cmd |-> "latest",
                        requests |-> IF result \in {"failed to get status", "shown"}
                                     THEN {"GetStatus"} ELSE {},
                        id |-> IF result = "shown" THEN lastPostID ELSE "",
                        result |-> result]
            /\ UNCHANGED <<store, history, log, notStoreVars>>

\* runLatest: the top of the history is fetched from the server and shown;
\* nothing is written
runLatest ==
    \E failAt \in LatestSteps \cup {"none"} :
        LET lastPostID == GetLastPostID(failAt # "GetLastPostID").value
            result == IF Get("access_token", failAt # "Get").value = ""
                      THEN "not authenticated"
                      ELSE IF failAt = "GetLastPostID" THEN "failed to get last post ID"
                      ELSE IF lastPostID = "" THEN "no posts in history"
                      ELSE IF failAt = "GetStatus" \/ lastPostID \notin server.statuses
                      THEN "failed to get status"
                      ELSE "shown"
        IN  /\ tui = NoTUI
            /\ last' = [cmd |-> "latest",
                        requests |-> IF result \in {"failed to get status", "shown"}
                                     THEN {"GetStatus"} ELSE {},
                        id |-> IF result = "shown" THEN lastPostID ELSE "",
                        result |-> result]
            /\ UNCHANGED <<store, history, log, notStoreVars>>

(***************************************************************************)
(* The command `edit`.  Texts are sequences of pieces: a word, a space, a  *)
(* line break, a character, an HTML tag or an HTML entity.                 *)
(***************************************************************************)
\* statuses as client.GetStatus returns them: `content` is the HTML the
\* server renders of the text the status has (paragraphs in <p>, a line
\* break as <br />, the characters of HTML as entities), `media` the IDs of
\* its attachments in order
Statuses ==
    { [text |-> <<"a">>,
       content |-> <<"<p>", "a", "</p>">>,
       media |-> <<>>],
      [text |-> <<"a", " ", "<", " ", "b">>,
       content |-> <<"<p>", "a", " ", "&lt;", " ", "b", "</p>">>,
       media |-> <<"m1", "m2">>],
      [text |-> <<"a", "\n", "b">>,
       content |-> <<"<p>", "a", "<br />", "b", "</p>">>,
       media |-> <<"m1">>] }

\* stripHTML: every tag is removed, the six entities are decoded, white
\* space is trimmed from both ends and every run of white space becomes one
\* space
stripHTML(html) ==
    LET isTag(t) == t \in {"<p>", "</p>", "<br />"}
        decode(t) == CASE t = "&lt;" -> "<"
                       [] t = "&gt;" -> ">"
                       [] t = "&amp;" -> "&"
                       [] t = "&quot;" -> "\""
                       [] t = "&#39;" -> "'"
                       [] t = "&nbsp;" -> " "
                       [] OTHER -> t
        isSpace(t) == t \in {" ", "\n", "\t"}
        noTags == SelectSeq(html, LAMBDA t : ~isTag(t))
        text == [i \in 1..Len(noTags) |-> decode(noTags[i])]
        inked == {i \in 1..Len(text) : ~isSpace(text[i])}
        first == CHOOSE i \in inked : \A j \in inked : i <= j
        final == CHOOSE i \in inked : \A j \in inked : j <= i
        trimmed == IF inked = {} THEN <<>> ELSE SubSeq(text, first, final)
        indices == [i \in 1..Len(trimmed) |-> i]
        kept == SelectSeq(indices, LAMBDA i : \/ ~isSpace(trimmed[i])
                                               \/ ~isSpace(trimmed[i - 1]))
    IN  [k \in 1..Len(kept) |-> IF isSpace(trimmed[kept[k]]) THEN " "
                                ELSE trimmed[kept[k]]]

\* how runEdit is told which status to edit: --tui with the post selected
\* in the TUI ("" when the TUI is quit), --latest, an ID, or nothing
EditTargets ==
    [kind : {"tui"}, id : {"", "s1"}]
        \cup [kind : {"latest", "none"}, id : {""}]
        \cup [kind : {"id"}, id : {"s1"}]
\* the calls of runEdit that can return an error
EditSteps == {"Get", "runEditTUI", "GetLastPostID", "GetStatus", "getStatusText",
              "ProcessImage", "UploadMedia", "EditStatus"}

\* runEdit: the status to edit is determined and fetched, the new text is
\* read from the editor, the arguments or stdin, and is the stripped content
\* of the status when that is empty; a new image is uploaded, or the IDs of
\* the attachments the status has are taken; then the edit is sent
runEdit ==
    \E target \in EditTargets, image \in BOOLEAN,
       textFrom \in {"nothing", "editor", "input"} :
    \E failAt \in (EditSteps
                   \ ((IF target.kind = "tui" THEN {} ELSE {"runEditTUI"})
                      \cup (IF target.kind = "latest" THEN {} ELSE {"GetLastPostID"})
                      \cup (IF textFrom = "nothing" THEN {"getStatusText"} ELSE {})
                      \cup (IF image THEN {} ELSE {"ProcessImage", "UploadMedia"})))
                  \cup {"none"} :
    \E alt \in IF image THEN BOOLEAN ELSE {FALSE} :
    \E response \in IF image /\ ~alt THEN Responses ELSE {""} :
        LET statusID == IF target.kind = "latest" THEN GetLastPostID(TRUE).value
                        ELSE target.id
            found == /\ Get("access_token", failAt # "Get").value # ""
                     /\ ~(target.kind = "tui" /\ failAt = "runEditTUI")
                     /\ ~(target.kind = "latest" /\ failAt = "GetLastPostID")
                     /\ statusID # ""
                     /\ failAt # "GetStatus"
                     /\ statusID \in server.statuses
        IN  \E currentStatus \in IF found THEN Statuses
                                 ELSE {[text |-> <<>>, content |-> <<>>,
                                        media |-> <<>>]} :
            \E typed \in IF ~found \/ textFrom = "nothing" THEN {<<>>}
                         ELSE IF textFrom = "input" THEN {<<>>, <<"c">>}
                         ELSE {<<>>, <<"c">>, stripHTML(currentStatus.content)} :
            LET currentText == stripHTML(currentStatus.content)
                statusText == IF typed = <<>> THEN currentText ELSE typed
                mediaIDs == IF image THEN <<"uploaded">> ELSE currentStatus.media
                early ==
                    IF Get("access_token", failAt # "Get").value = ""
                    THEN "not authenticated"
                    ELSE IF target.kind = "tui" /\ failAt = "runEditTUI"
                    THEN "edit TUI failed"
                    ELSE IF target.kind = "tui" /\ statusID = ""
                    THEN "no post selected"
                    ELSE IF target.kind = "latest" /\ failAt = "GetLastPostID"
                    THEN "failed to get last post ID"
                    ELSE IF target.kind = "latest" /\ statusID = ""
                    THEN "no posts in history"
                    ELSE IF target.kind = "none"
                    THEN "must provide status ID, use --latest, or use --tui"
                    ELSE IF ~found THEN "failed to get status"
                    ELSE IF failAt = "getStatusText" THEN "failed to get status text"
                    ELSE IF image /\ ~alt /\ response # "y" /\ response # "yes"
                    THEN "cancelled"
                    ELSE IF image /\ failAt = "ProcessImage"
                    THEN "failed to process image"
                    ELSE IF image /\ failAt = "UploadMedia"
                    THEN "failed to upload image"
                    ELSE ""
                result == IF early # "" THEN early
                          ELSE IF failAt = "EditStatus" THEN "failed to edit status"
                          ELSE "edited"
            IN  /\ tui = NoTUI
                /\ server.media < MaxOps
                /\ last' = [cmd |-> "edit",
                            requests |->
                                (IF target.kind = "tui" /\ early # "not authenticated"
                                 THEN {"GetAccountStatuses"} ELSE {})
                                \cup (IF found \/ early = "failed to get status"
                                      THEN {"GetStatus"} ELSE {})
                                \cup (IF image /\ early \in {"", "failed to upload image"}
                                      THEN {"UploadMedia"} ELSE {})
                                \cup (IF early = "" THEN {"EditStatus"} ELSE {}),
                            typed |-> typed,
                            image |-> image,
                            current |-> currentStatus,
                            params |-> IF early = ""
                                       THEN [Status |-> statusText,
                                             MediaIDs |-> mediaIDs]
                                       ELSE [Status |-> <<>>, MediaIDs |-> <<>>],
                            result |-> result]
                /\ server' = IF image /\ early = ""
                             THEN [server EXCEPT !.media = @ + 1] ELSE server
                /\ UNCHANGED <<store, history, log, runVars, sessionVars, tui>>

(***************************************************************************)
(* The command `edit` run again and again by an authenticated user who has  *)
(* posted three statuses, with every combination of its flags and inputs.  *)
(***************************************************************************)
EditSpec == PostedInit /\ [][runEdit]_vars

(***************************************************************************)
(* A session of an authenticated user with three posts who syncs, looks at *)
(* the latest post, clears the history and logs out, in any order.         *)
(***************************************************************************)
LogoutNext ==
    \/ runSync
    \/ runLatest
    \/ runClear
    \/ runLogout

LogoutSpec == PostedInit /\ [][LogoutNext]_vars

(***************************************************************************)
(* The commands that need a token, run by a user who has none: one who     *)
(* never authenticated, one whose authentication stopped after the         *)
(* application was registered, or one who logged out.  The account may     *)
(* hold statuses on the server all the same.                               *)
(***************************************************************************)
LoggedOutInit ==
    /\ store \in {EmptyStore, PartialStore}
    /\ authPc = "checkToken"
    /\ domain = ""
    /\ port = 0
    /\ bound = NotBound
    /\ urlShown = FALSE
    /\ browser = "none"
    /\ authErr = Nil
    /\ store0 = store
    /\ registered = FALSE
    /\ exchanged = ""
    /\ prompt = "none"
    /\ passed = [op \in RedirectTakers |-> <<>>]
    /\ tui = NoTUI
    /\ history = <<>>
    /\ log = <<>>
    /\ last = NoCommand
    /\ server \in [statuses : SUBSET StatusIDs, media : {0}]
    /\ calls = [op \in Operations |-> 0]
    /\ listener = "none"
    /\ servePc = "none"
    /\ inShutdown = FALSE
    /\ onceState = "fresh"
    /\ stops = 0
    /\ codeChan = <<>>
    /\ errChan = <<>>
    /\ reqPc = [r \in Requests |-> "new"]
    /\ reqCode = [r \in Requests |-> ""]
    /\ reqStatus = [r \in Requests |-> ""]
    /\ delivered = <<>>
    /\ timer = "off"
    /\ waitPc = "idle"
    /\ outcome = NoOutcome
    /\ resolved = NoResolve
    /\ outcomes = <<>>
    /\ extraPc = "idle"

LoggedOutNext ==
    \/ runPost
    \/ runDelete
    \/ StartTUI("delete")
    \/ runEdit
    \/ runSync
    \/ runLatest

LoggedOutSpec == LoggedOutInit /\ [][LoggedOutNext]_vars

(***************************************************************************)
(* Properties.                                                             *)
(***************************************************************************)
\* WaitForCode has returned to its caller
Returned == waitPc = "returned"
\* runAuth has returned
AuthExited == authPc \in {"done", "failed", "cancelled"}
\* Start succeeded
Started == servePc # "none"
\* the result a sender put into the session: s is a request, or 0 for Serve
ResultOf(s) ==
    IF s = 0 THEN [code |-> "", err |-> ErrServe]
    ELSE IF reqCode[s] = "" THEN [code |-> "", err |-> ErrMissingCode]
    ELSE [code |-> reqCode[s], err |-> Nil]
\* the three shapes of a terminal outcome
TerminalOutcomes ==
    [code : Codes, err : {Nil}]
        \cup [code : {""}, err : {ErrMissingCode, ErrServe}]
        \cup [code : {""}, err : {ErrTimeout}]

\* C1: a call of WaitForCode hands its caller at most one terminal outcome,
\* which is (code, nil), ("", listener error) or ("", timeout error); whatever
\* is delivered into the session afterwards produces no second outcome.
C1_AtMostOneOutcome ==
    /\ Len(outcomes) <= 1
    /\ \A i \in 1..Len(outcomes) : outcomes[i] \in TerminalOutcomes
    /\ Returned => Len(outcomes) = 1

\* the waiter has its outcome and a later delivery sits in the session
C1_Witness ==
    /\ Returned
    /\ Len(outcomes) = 1
    /\ Len(delivered) > Len(resolved.delivered)
    /\ codeChan # <<>> \/ errChan # <<>>

StuckHandler(r) ==
    /\ reqPc[r] = "handling"
    /\ Returned
    /\ IF reqCode[r] = "" THEN Len(errChan) = 1 ELSE Len(codeChan) = 1

\* C3: no invocation of the /callback handler blocks indefinitely on
\* delivering its result, however many requests arrive and whenever they do.
C3_NoHandlerBlocksForever == \A r \in Requests : ~StuckHandler(r)

\* C4: WaitForCode always eventually returns: the wait resolves and the
\* shutdown it triggers completes, whatever requests are in flight.
C4_WaitReturns == (waitPc = "select") ~> Returned

\* WaitForCode has returned although a handler is still blocked on its send
C4_Witness == Returned /\ \E r \in Requests : StuckHandler(r)

C6_MissingCodeIsError ==
    (/\ Returned
     /\ Len(resolved.delivered) = 1
     /\ resolved.delivered[1] \in Requests
     /\ reqCode[resolved.delivered[1]] = "")
        => /\ outcomes[1].code = ""
           /\ outcomes[1].err # Nil
           /\ resolved.timer # "fired" => outcomes[1].err = ErrMissingCode

C6_Witness ==
    /\ Returned
    /\ Len(resolved.delivered) = 1
    /\ resolved.delivered[1] \in Requests
    /\ reqCode[resolved.delivered[1]] = ""
    /\ reqStatus[resolved.delivered[1]] = StatusBadRequest
    /\ outcomes[1].err = ErrMissingCode

\* C7: if neither a callback request nor a listener error has delivered
\* anything when the wait resolves, WaitForCode returns an empty code and
\* exactly the error "timeout waiting for authorization".
C7_TimeoutError ==
    (Returned /\ resolved.delivered = <<>>)
        => outcomes[1] = [code |-> "", err |-> ErrTimeout]

C7_Witness ==
    /\ Returned
    /\ resolved.delivered = <<>>
    /\ \A r \in Requests : reqPc[r] = "new"
    /\ outcomes[1].err = ErrTimeout

\* C8: whenever a code or an error has already been delivered into the
\* session at the moment the wait resolves, WaitForCode returns that code or
\* error and not the timeout error.
C8_TimeoutOnlyWithoutDelivery ==
    (Returned /\ resolved.delivered # <<>>) => outcomes[1].err # ErrTimeout

\* C9: when several requests have delivered results, the outcome WaitForCode
\* returns is the result of the request whose delivery happened first (here
\* even with the timeout not elapsed when the wait resolves).
C9_FirstDeliveryWins ==
    (/\ Returned
     /\ resolved.timer # "fired"
     /\ Len(resolved.delivered) >= 2
     /\ \A i \in 1..Len(resolved.delivered) : resolved.delivered[i] \in Requests)
        => outcomes[1] = ResultOf(resolved.delivered[1])

\* C10: on every resolution path the listener is shut down before
\* WaitForCode returns, and from then on it accepts no connection (a closed
\* listener accepts none).
C10_ShutDownBeforeReturn == Returned => listener = "closed"

\* C11: shutdown is idempotent.  However many calls are made, one after the
\* other or at the same time as WaitForCode's own: only the first call to
\* enter performs the stop (the count of stops rises only from 0, out of a
\* fresh sync.Once); a call made while or after another one stops the server
\* changes nothing of the server when it returns; and every call returns
\* (none blocks forever).
C11_ShutdownIdempotent ==
    /\ [][stops' # stops => (stops = 0 /\ onceState = "fresh" /\ stops' = 1)]_vars
    /\ [][(extraPc = "calling" /\ extraPc' = "idle")
            => (onceState = "done" /\ UNCHANGED <<serverVars, onceVars>>)]_vars
    /\ (extraPc = "calling") ~> (extraPc = "idle")

\* two calls of shutdown at the same time, WaitForCode's and a direct one,
\* while the one stop is in progress
C11_Witness ==
    /\ extraPc = "calling"
    /\ waitPc = "shutdown"
    /\ onceState = "running"
    /\ stops = 1

\* C12: the listener is bound and accepting before the authorization URL is
\* displayed or the browser is opened: whenever the URL has been displayed or
\* OpenBrowser called, Start has succeeded on the server's port, and the
\* listening socket is open unless the server has since been shut down or
\* Serve has ended.
C12_ListeningBeforeURL ==
    (urlShown \/ browser # "none")
        => /\ Started
           /\ port # 0
           /\ bound.port = port
           /\ (~inShutdown /\ servePc \in {"spawned", "accepting"})
                  => listener = "bound"

\* the URL is displayed and the browser opened while the socket is bound and
\* the goroutine of Serve has not yet run
C12_Witness ==
    /\ urlShown
    /\ browser = "called"
    /\ servePc = "spawned"
    /\ listener = "bound"
    /\ bound.port = MaxPort

\* C13: when the port cannot be bound, Start returns an error and the run
\* aborts before any interaction with the browser: the run has failed, the
\* authorization URL is not displayed, OpenBrowser and WaitForCode are not
\* called, no goroutine serves, and the run stores no access token (the entry
\* of the store is the one the run found).
C13_BindFailureAborts ==
    authErr = ErrStartServer
        => /\ authPc = "failed"
           /\ ~urlShown
           /\ browser = "none"
           /\ waitPc = "idle"
           /\ timer = "off"
           /\ listener = "none"
           /\ servePc = "none"
           /\ store["access_token"] = store0["access_token"]

\* the bind failed in a first authentication: the application is registered
\* and saved, no token
C13_Witness ==
    /\ authErr = ErrStartServer
    /\ store0 = EmptyStore
    /\ store["client_secret"] = "secret"
    /\ store["access_token"] = ""
    /\ port = MaxPort

\* the status handleCallback answers request r with
ExpectedStatus(r) == IF reqCode[r] = "" THEN StatusBadRequest ELSE StatusOK

\* C14: every /callback request that is handled is answered, with 200 if it
\* carries a non-empty code and 400 otherwise, whether or not a waiter is
\* inside WaitForCode and whether or not a result was delivered before.
C14_EveryRequestAnswered ==
    \A r \in Requests :
        (reqPc[r] = "handling")
            ~> (reqPc[r] = "done" /\ reqStatus[r] = ExpectedStatus(r))

\* C15: every port oauth.NewCallbackServer gives a server (the return value
\* of getRandomPort) lies in [49152, 65535], whatever rand.Int draws.
C15_PortInRange == port # 0 => (port >= 49152 /\ port <= 65535)

\* the largest draw gives the last port of the range
C15_Witness == port = 65535 /\ authPc = "register"

\* C16: RedirectURI() is "http://localhost:<port>/callback" for the very
\* port the listener binds: the number written in the URI, the value of
\* Port() and the port of the bound address never differ.
C16_RedirectURIMatchesPort ==
    port # 0 =>
        LET uri == RedirectURI
            digits == SubSeq(uri, 2, Len(uri) - 1)
        IN  /\ uri[1] = "http://localhost:"
            /\ uri[Len(uri)] = "/callback"
            /\ Len(uri) = 7
            /\ \A i \in 1..5 : \E d \in 0..9 : digits[i] = Digit[d + 1]
            /\ Atoi(digits) = Port
            /\ listener = "bound" => bound.port = Atoi(digits)

\* a listener bound on a port whose decimal form has zeros
C16_Witness ==
    /\ listener = "bound"
    /\ bound.port = 50000
    /\ Port = 50000
    /\ RedirectURI = <<"http://localhost:", "5", "0", "0", "0", "0", "/callback">>

\* C17: Start binds the listener on localhost:<port>, the loopback host of
\* the redirect URI, and on no other interface.
C17_BoundOnLocalhost ==
    bound # NotBound => (bound.host = "localhost" /\ bound.port = port)

\* the state of the authentication run the position of runAuth belongs to:
\* 0 idle, 1 domain collected, 2 application registered, 3 listener started,
\* 4 awaiting callback, 5 code received, 6 token exchanged, 7 persisted,
\* 8 ended without success (failed, or cancelled by the user)
RunState(pc) ==
    CASE pc \in {"checkToken", "readDomain"} -> 0
      [] pc \in {"newServer", "register"} -> 1
      [] pc \in {"saveDomain", "saveClientID", "saveClientSecret", "start"} -> 2
      [] pc \in {"display", "openBrowser"} -> 3
      [] pc = "wait" -> 4
      [] pc = "exchange" -> 5
      [] pc = "saveToken" -> 6
      [] pc = "done" -> 7
      [] pc \in {"failed", "cancelled"} -> 8

\* C18: an authentication run moves through its states only forward, in the
\* order domain collected, application registered, listener started,
\* awaiting callback, code received, token exchanged, persisted: a step
\* stays in its state, enters the next one, or ends the run; no step returns
\* to an earlier state; the step that fails writes nothing and starts
\* nothing; and once the run has ended none of its steps is executed.
C18_ForwardOnly ==
    /\ [][\/ RunState(authPc') = RunState(authPc)
          \/ RunState(authPc') = RunState(authPc) + 1
          \/ authPc' \in {"failed", "cancelled"}]_vars
    /\ [][(authPc # "failed" /\ authPc' = "failed")
            => (authErr' # Nil
                /\ UNCHANGED <<store, domain, port, bound, urlShown, browser,
                               listener, servePc, waitPc>>)]_vars
    /\ [][AuthExited
            => UNCHANGED <<authPc, store, domain, port, bound, urlShown,
                           browser, authErr>>]_vars

\* the run has failed at the token exchange, its last but one step
C18_Witness ==
    /\ authPc = "failed"
    /\ authErr = ErrGetToken
    /\ Returned
    /\ urlShown
    /\ store["access_token"] = store0["access_token"]

\* C19: if the domain the user supplied is empty after trimming, the run
\* fails at once: no port is allocated, no application is registered,
\* nothing is written to the store and no listener is started.
C19_EmptyDomainFailsAtOnce ==
    authErr = ErrEmptyDomain
        => /\ authPc = "failed"
           /\ domain = ""
           /\ port = 0
           /\ ~registered
           /\ store = store0
           /\ bound = NotBound
           /\ listener = "none"
           /\ servePc = "none"
           /\ ~urlShown
           /\ browser = "none"
           /\ waitPc = "idle"

\* a re-authentication given an empty domain: what the earlier run stored is
\* left as it was
C19_Witness ==
    /\ authErr = ErrEmptyDomain
    /\ authPc = "failed"
    /\ store0 = OldStore
    /\ store = OldStore

\* the store holds the domain of the run and the credentials of the
\* application registered in it
CredentialsStored ==
    /\ store["domain"] = domain
    /\ store["client_id"] = "id"
    /\ store["client_secret"] = "secret"

\* runAuth is past its three store writes after the registration
PastCredentialWrites ==
    /\ registered
    /\ authPc \notin {"saveDomain", "saveClientID", "saveClientSecret"}

\* C20 as stated: as soon as registration has succeeded, domain, client_id
\* and client_secret are in the store, and they stay there however the run
\* goes on.
C20_StoredOnRegistration == PastCredentialWrites => CredentialsStored

\* C20, amended: unless one of the three store writes that follow the
\* registration fails (the run then fails at that write), domain, client_id
\* and client_secret are in the store once the writes are done, and they stay
\* there when the listener start, the wait for the code, the token exchange
\* or the token save fails.
C20_StoredUnlessWriteFails ==
    (/\ PastCredentialWrites
     /\ authErr \notin {ErrSaveDomain, ErrSaveClientID, ErrSaveClientSecret})
        => CredentialsStored

\* the save of the token failed in a first authentication: the credentials
\* are stored, the token is not
C20_Witness ==
    /\ authErr = ErrSaveToken
    /\ authPc = "failed"
    /\ store0 = EmptyStore
    /\ CredentialsStored
    /\ store["access_token"] = ""

\* C21: an authentication run writes access_token only after GetAccessToken
\* has succeeded for the code WaitForCode returned: while the entry differs
\* from the one the run found, WaitForCode has returned a code without
\* error, that code was exchanged for a token without error, and the run is
\* done; on every run that has failed or was cancelled the entry is the one
\* the run found.
C21_TokenOnlyAfterExchange ==
    /\ store["access_token"] # store0["access_token"]
         => /\ authPc = "done"
            /\ authErr = Nil
            /\ Len(outcomes) = 1
            /\ outcomes[1].err = Nil
            /\ outcomes[1].code \in Codes
            /\ exchanged = outcomes[1].code
            /\ store["access_token"] = "token"
    /\ authPc \in {"failed", "cancelled"}
         => store["access_token"] = store0["access_token"]
    /\ authPc = "done" => store["access_token"] = "token"

\* a re-authentication whose token exchange failed: the token of the earlier
\* run is still the one stored
C21_Witness ==
    /\ authPc = "failed"
    /\ authErr = ErrGetToken
    /\ store0 = OldStore
    /\ store["access_token"] = "old"
    /\ outcomes[1].code = "a"

\* C22: a failure of OpenBrowser does not abort the run.  The step in which
\* OpenBrowser fails takes runAuth to the call of WaitForCode without an
\* error; from there on no step of the run is held back (the call of
\* WaitForCode, the test of its result, the token exchange and the save of
\* the token can each be taken when the run is at it); a run that fails
\* afterwards fails at the wait, the exchange or the save, never for the
\* browser; and a run that is done has exchanged the code that arrived and
\* stored the token.
C22_BrowserFailureNotFatal ==
    /\ [][(browser = "none" /\ browser' = "failed")
            => (authPc' = "wait" /\ authErr' = Nil /\ waitPc' = "idle")]_vars
    /\ [](browser = "failed" =>
            /\ (authPc = "wait" /\ waitPc = "idle") => ENABLED WaitForCode
            /\ (authPc = "wait" /\ waitPc = "returned") => ENABLED AuthCodeReceived
            /\ authPc = "exchange" => ENABLED AuthGetAccessToken
            /\ authPc = "saveToken" => ENABLED AuthSaveToken
            /\ authPc = "failed" => authErr \in {ErrGetCode, ErrGetToken, ErrSaveToken}
            /\ authPc = "done" => /\ outcomes[1].err = Nil
                                  /\ exchanged = outcomes[1].code
                                  /\ store["access_token"] = "token")

\* the browser could not be opened, a request brought the code "b", and the
\* run exchanged it and stored the token
C22_Witness ==
    /\ browser = "failed"
    /\ authPc = "done"
    /\ outcomes[1] = [code |-> "b", err |-> Nil]
    /\ exchanged = "b"
    /\ store["access_token"] = "token"

\* the errors a run can end with
RunErrors ==
    {ErrReadDomain, ErrEmptyDomain, ErrCreateServer, ErrRegisterApp,
     ErrSaveDomain, ErrSaveClientID, ErrSaveClientSecret, ErrStartServer,
     ErrGetCode, ErrGetToken, ErrSaveToken}

\* C23: every error other than that of the browser launch aborts the run
\* with an error: an error that occurred has ended the run, a run that
\* failed returned one of its errors, and whatever error WaitForCode returned
\* (missing code, timeout, failure of Serve) is returned by the run as the
\* failure to get the code.  There are no retries: RegisterApp, Start,
\* WaitForCode and GetAccessToken are each invoked at most once in a run.
C23_ErrorsAbortNoRetry ==
    /\ authErr # Nil => authPc = "failed"
    /\ authPc = "failed" => authErr \in RunErrors
    /\ (authPc # "wait" /\ Len(outcomes) = 1 /\ outcomes[1].err # Nil)
          => (authPc = "failed" /\ authErr = ErrGetCode)
    /\ \A op \in Operations : calls[op] <= 1
    /\ AuthExited => (authPc = "done" <=> store["access_token"] # store0["access_token"])

\* a run aborted by the timeout of the wait, every operation before the
\* token exchange invoked once
C23_Witness ==
    /\ authPc = "failed"
    /\ authErr = ErrGetCode
    /\ outcomes[1].err = ErrTimeout
    /\ calls = [op \in Operations |-> IF op = "GetAccessToken" THEN 0 ELSE 1]

\* C24: when an access token is already stored, the authentication flow
\* starts only after the user has confirmed with "y" or "yes": a run that
\* found a token and has gone past the prompt without being cancelled was
\* confirmed; a run that was answered otherwise is cancelled, and has
\* registered no application, started no listener and not changed the store.
C24_ReauthOnlyOnConfirm ==
    /\ (store0["access_token"] # "" /\ authPc \notin {"checkToken", "cancelled"})
          => prompt = "confirmed"
    /\ prompt = "declined"
          => /\ authPc = "cancelled"
             /\ ~registered
             /\ calls = [op \in Operations |-> 0]
             /\ port = 0
             /\ listener = "none"
             /\ servePc = "none"
             /\ store = store0

\* what a map holds for key k after the operations of l: the value of the
\* most recent Set of k that no Delete of k and no ClearAll follows, ""
\* when there is none
RECURSIVE MapValue(_, _)
MapValue(l, k) ==
    IF l = <<>> THEN ""
    ELSE LET e == l[Len(l)] IN
         IF e.op = "Set" /\ e.key = k THEN e.value
         ELSE IF (e.op = "Delete" /\ e.key = k) \/ e.op = "ClearAll" THEN ""
         ELSE MapValue(SubSeq(l, 1, Len(l) - 1), k)

\* C25: the key-value store behaves as a map: after any sequence of Set,
\* Delete and ClearAll, Get(k) returns the value of the most recent Set(k, v)
\* not followed by Delete(k) or ClearAll, and the empty string with a nil
\* error for a key never set or removed; a Get whose query fails returns an
\* error, never a wrong value without one.
C25_StoreIsMap ==
    \A k \in Keys :
        /\ Get(k, TRUE) = [value |-> MapValue(log, k), err |-> Nil]
        /\ Get(k, FALSE).err # Nil

\* a key set, replaced and deleted again, beside a key that holds its second
\* value
C25_Witness ==
    /\ log = <<Entry("Set", "domain", "v1"), Entry("Set", "domain", "v2"),
               Entry("Delete", "domain", "")>>
    /\ Get("domain", TRUE) = [value |-> "", err |-> Nil]

\* the top of a stack after the operations of l: the status ID of the most
\* recent Add that no Remove of that ID (those after it are in `removed`) and
\* no clearing follows, "" when there is none
RECURSIVE StackTop(_, _)
StackTop(l, removed) ==
    IF l = <<>> THEN ""
    ELSE LET e == l[Len(l)]
             front == SubSeq(l, 1, Len(l) - 1)
         IN  IF e.op \in {"ClearPostHistory", "ClearAll"} THEN ""
             ELSE IF e.op = "Remove" THEN StackTop(front, removed \cup {e.key})
             ELSE IF e.op = "Add" /\ e.key \notin removed THEN e.key
             ELSE StackTop(front, removed)

\* C26: the post history is a stack: after any sequence of AddPostToHistory,
\* RemovePostFromHistory and ClearPostHistory, GetLastPostID returns the
\* most recently added status ID that has not since been removed, and the
\* empty string with a nil error when the history is empty.
C26_HistoryIsStack ==
    GetLastPostID(TRUE) = [value |-> StackTop(log, {}), err |-> Nil]

\* C27: after a successful sync the newest fetched status, the one the
\* command reports as "Most recent post", is the top of the local history,
\* i.e. the ID GetLastPostID returns, whatever the history held before.
C27_SyncedNewestOnTop ==
    (last.cmd = "sync" /\ last.result = "synced")
        => GetLastPostID(TRUE) = [value |-> last.mostRecent, err |-> Nil]

\* C28: ClearAll removes every config key and every post-history entry:
\* after a ClearAll that succeeded Get returns the empty string for every
\* key and GetLastPostID returns the empty string; a ClearAll that fails, at
\* whichever of its steps, changes neither table.
C28_ClearAllAtomic ==
    /\ []((last.cmd = "ClearAll" /\ last.failedAt = "none")
            => /\ \A k \in Keys : Get(k, TRUE) = [value |-> "", err |-> Nil]
               /\ GetLastPostID(TRUE) = [value |-> "", err |-> Nil]
               /\ history = <<>>)
    /\ [][(last'.cmd = "ClearAll" /\ last'.failedAt # "none")
            => UNCHANGED <<store, history, log>>]_vars

\* ClearAll has emptied a config table that held the four keys and a history
\* that held two posts
C28_Witness ==
    /\ last = [cmd |-> "ClearAll", failedAt |-> "none"]
    /\ store0 = OldStore
    /\ log = <<Entry("Add", "s1", ""), Entry("Add", "s2", ""),
               Entry("ClearAll", "", "")>>
    /\ store = EmptyStore

\* C29: clearing the post history empties the history and leaves every
\* config key as it was; without --force the command clears only after the
\* answer "y" or "yes", on any other answer the history is unchanged (and so
\* it is when ClearPostHistory fails).
C29_ClearLeavesConfig ==
    /\ [][last'.cmd = "clear"
            => /\ store' = store
               /\ IF last'.result = "cleared"
                  THEN history' = <<>>
                  ELSE history' = history]_vars
    /\ [](last.cmd = "clear"
            => /\ last.result = "cleared" => GetLastPostID(TRUE).value = ""
               /\ (~last.force /\ last.response \notin {"y", "yes"})
                      => last.result = "cancelled")

\* the history held two posts and was cleared on the answer "yes"; the four
\* config keys are as before
C29_Witness ==
    /\ last = [cmd |-> "clear", force |-> FALSE, response |-> "yes",
               result |-> "cleared"]
    /\ log = <<Entry("Add", "s1", ""), Entry("Add", "s2", ""),
               Entry("ClearPostHistory", "", "")>>
    /\ history = <<>>
    /\ store = OldStore

\* C30: in dry-run mode the post command shows what would be posted without
\* posting: a run with --dry-run makes no state-changing call to the server
\* (no status is posted, no media uploaded) and leaves the local post history
\* unchanged, for every combination of the reply, image and visibility flags.
C30_DryRunChangesNothing ==
    [][(last'.cmd = "post" /\ last'.dryRun) => UNCHANGED <<server, history>>]_vars

(***************************************************************************)
\* C39: within one run the redirect URI handed to RegisterApp, to
\* GetAuthorizationURL and to GetAccessToken is one and the same value, the
\* RedirectURI() of the server the run created; that server is the only one
\* started and waited on (each at most once), and the port in the URI is
\* the port its listener is bound to.
C39_OneRedirectURI ==
    /\ \A op \in RedirectTakers :
           passed[op] # <<>> =>
               /\ port # 0
               /\ passed[op] = RedirectURIOf(port)
               /\ bound # NotBound => passed[op] = RedirectURIOf(bound.port)
    /\ \A a, b \in RedirectTakers :
           passed[a] # <<>> /\ passed[b] # <<>> => passed[a] = passed[b]
    /\ calls["Start"] <= 1
    /\ calls["WaitForCode"] <= 1
    /\ passed["GetAccessToken"] # <<>> =>
           /\ passed["RegisterApp"] # <<>>
           /\ passed["GetAuthorizationURL"] # <<>>
           /\ calls["Start"] = 1
           /\ calls["WaitForCode"] = 1
           /\ bound # NotBound

\* a run that got its token: all three calls were made with the URI
C39_Witness ==
    /\ authPc = "done"
    /\ exchanged # ""
    /\ \A op \in RedirectTakers : passed[op] = RedirectURIOf(bound.port)
    /\ bound.port = MaxPort

(***************************************************************************)
\* C40: once a run has ended, a stored access token is accompanied by the
\* domain, client_id and client_secret of the registration it was issued
\* under: the token an earlier run left ("old") by that run's values, the
\* token of this run by the values this run registered.
C40_CredentialsMatchToken ==
    AuthExited =>
        /\ store["access_token"] = "old" =>
               /\ store["domain"] = "old"
               /\ store["client_id"] = "old"
               /\ store["client_secret"] = "old"
        /\ store["access_token"] = "token" =>
               /\ store["domain"] = domain
               /\ store["client_id"] = "id"
               /\ store["client_secret"] = "secret"

\* a step in which runDelete ran to its return, and one in which
\* runDeleteTUI did after the TUI had ended
DeleteReturned == tui = NoTUI /\ last'.cmd = "delete"
DeleteTUIReturned == tui # NoTUI /\ tui' = NoTUI /\ last'.cmd = "delete --tui"

(***************************************************************************)
\* C31: `delete` by ID or with --latest calls DeleteStatus only with --force
\* or after the answer "y" or "yes"; after any other answer it makes no call
\* to the server and leaves the account and the post history as they were.
C31_DeleteOnlyConfirmed ==
    [][DeleteReturned =>
          /\ "DeleteStatus" \in last'.requests =>
                 last'.force \/ last'.response \in {"y", "yes"}
          /\ ~last'.force /\ last'.response \notin {"y", "yes"} =>
                 /\ last'.requests = {}
                 /\ last'.deleted = {}
                 /\ UNCHANGED <<server, history, store>>]_vars

\* a confirmed delete of the latest post has removed it, and a declined one
\* was the command before it
C31_Witness ==
    /\ last.cmd = "delete"
    /\ ~last.force
    /\ last.response = "yes"
    /\ last.deleted = {"s3"}
    /\ history = <<"s1", "s2">>
    /\ server.statuses = {"s1", "s2"}

(***************************************************************************)
\* C32 as stated: after `delete` (with or without --tui) the history is the
\* history before it without the IDs the server deleted, the other entries
\* in their order, so that the top is the next most recent post; the IDs
\* whose delete the server refused, and everything when nothing was deleted,
\* stay.
C32_DeletedLeaveHistory ==
    [][DeleteReturned \/ DeleteTUIReturned =>
          history' = RemoveAll(history, last'.deleted)]_vars

\* C32 amended: the same for the deleted IDs whose RemovePostFromHistory did
\* not fail; the IDs whose removal failed (which is printed, the command
\* still reporting the delete) stay in the history although the server has
\* deleted them, and nothing else changes the history.
C32_RemovedUnlessStoreFails ==
    [][DeleteReturned \/ DeleteTUIReturned =>
          /\ history' = RemoveAll(history, last'.deleted \ last'.unremoved)
          /\ last'.unremoved \subseteq last'.deleted
          /\ server'.statuses = server.statuses \ last'.deleted
          /\ history' # <<>> /\ history # <<>> /\ history[Len(history)] \notin last'.deleted
                => history'[Len(history')] = history[Len(history)]]_vars

\* the latest post was deleted with --latest: the one below it is the top
C32_Witness ==
    /\ last.cmd = "delete"
    /\ last.deleted = {"s3"}
    /\ last.unremoved = {}
    /\ GetLastPostID(TRUE).value = "s2"
    /\ "s3" \notin server.statuses

(***************************************************************************)
\* C34: in the delete TUI posts are deleted only through the delete action
\* (d with a selection): when the program ended without it, by q or ctrl+c,
\* the user is not asked and nothing is deleted, whatever is selected; and
\* whatever is deleted was confirmed with "y" or "yes".
C34_DeleteOnlyByAction ==
    [][DeleteTUIReturned =>
          /\ ~last'.deleteAction =>
                 /\ ~last'.prompted
                 /\ last'.deleted = {}
                 /\ UNCHANGED <<server, history>>
          /\ last'.deleted # {} =>
                 last'.prompted /\ last'.response \in {"y", "yes"}]_vars

(***************************************************************************)
\* C37: in the three selection TUIs the cursor is always a valid index: it
\* is 0 when the list is empty and else at least 0 and less than the length
\* of the list, whatever keys and sync messages Update has handled, a sync
\* that brought a shorter list included; and the ID runReplyTUI or
\* runEditTUI returns is that of the item under the cursor of the final
\* model, returned only when an item was selected.
C37_CursorValid ==
    /\ [](tui # NoTUI =>
              /\ tui.cursor >= 0
              /\ Len(tui.statuses) = 0 => tui.cursor = 0
              /\ Len(tui.statuses) > 0 => tui.cursor < Len(tui.statuses))
    /\ [][tui # NoTUI /\ tui' = NoTUI /\ tui.kind \in {"reply", "edit"}
              /\ last'.returned # "" =>
                  /\ tui.selected
                  /\ tui.cursor + 1 \in 1..Len(tui.statuses)
                  /\ last'.returned = tui.statuses[tui.cursor + 1].id]_vars

\* the second of two posts was selected for editing
C37_Witness ==
    /\ tui # NoTUI
    /\ tui.kind = "edit"
    /\ tui.run = "ended"
    /\ tui.selected
    /\ tui.cursor = 1
    /\ Len(tui.statuses) = 2

(***************************************************************************)
\* C36 as stated: when `post` succeeds the new status ID is the top of the
\* history (what GetLastPostID returns); when posting fails, or the command
\* ends before it posts, the history is unchanged; and a failure to record
\* the post leaves the command successful.
C36_PostedOnTop ==
    [][last'.cmd = "post" =>
          /\ last'.result = "posted" =>
                 /\ last'.id \in server'.statuses \ server.statuses
                 /\ history' # <<>>
                 /\ history'[Len(history')] = last'.id
          /\ last'.result # "posted" => history' = history
          /\ last'.historyError => last'.result = "posted"]_vars

\* C36 amended: the same where AddPostToHistory did not fail; when it fails
\* the command still reports the post, which is on the server, and the
\* history is as it was, its top an older post.
C36_PostedOnTopUnlessStoreFails ==
    [][last'.cmd = "post" =>
          /\ last'.result = "posted" =>
                 /\ last'.id \in server'.statuses \ server.statuses
                 /\ "PostStatus" \in last'.requests
                 /\ IF last'.historyError THEN history' = history
                    ELSE /\ history' = Append(history, last'.id)
                         /\ history'[Len(history')] = last'.id
          /\ last'.result # "posted" =>
                 /\ history' = history
                 /\ server'.statuses = server.statuses
          /\ last'.historyError => last'.result = "posted"]_vars

\* the second post made is recorded above the first
C36_Witness ==
    /\ last.cmd = "post"
    /\ last.result = "posted"
    /\ ~last.historyError
    /\ Len(history) = 2
    /\ GetLastPostID(TRUE).value = last.id

(***************************************************************************)
\* C38: an edit keeps what the user did not replace: when no new text is
\* supplied the text sent in the edit request is the text the status has,
\* and when no new image is supplied the media IDs sent are exactly the IDs
\* of the attachments the status has, in their order.
C38_EditKeepsTextAndMedia ==
    [][(last'.cmd = "edit" /\ "EditStatus" \in last'.requests) =>
          /\ last'.typed = <<>> => last'.params.Status = last'.current.text
          /\ ~last'.image => last'.params.MediaIDs = last'.current.media]_vars

(***************************************************************************)
\* C33: when an access token is stored, logout empties the store, config
\* keys and post history, whether or not the server revoked the token; when
\* none is stored, logout makes no server call and changes nothing.
C33_LogoutClearsAll ==
    [][last'.cmd = "logout" =>
          IF store["access_token"] # ""
          THEN /\ store' = EmptyStore
               /\ history' = <<>>
          ELSE /\ last'.requests = {}
               /\ store' = store
               /\ history' = history]_vars

(***************************************************************************)
\* C35: with no access_token stored, the commands post, delete, edit, sync
\* and latest fail with "not authenticated", make no request to the server
\* and change neither the store nor the history.
C35_NotAuthenticated ==
    [][(store["access_token"] = ""
        /\ last'.cmd \in {"post", "delete", "delete --tui", "edit", "sync", "latest"})
       => /\ last'.result = "not authenticated"
          /\ last'.requests = {}
          /\ store' = store
          /\ history' = history
          /\ log' = log
          /\ server' = server
          /\ tui' = NoTUI]_vars

\* `post` was refused where the application is registered, no token is
\* stored and the account has statuses on the server
C35_Witness ==
    /\ store = PartialStore
    /\ server.statuses = {"s1"}
    /\ last.cmd = "post"
    /\ last.result = "not authenticated"
    /\ last.requests = {}
====
